---- MODULE Spec2Model ----
(***************************************************************************)
(* beamboxctl: the BLE upload engine (BleUploader / NotificationHandler /  *)
(* BeamBoxUploader) and the packet framer and payload composer it uses.    *)
(*                                                                         *)
(* The JavaScript event loop is modelled by its run-to-completion pieces:  *)
(* one action per stretch of code between two awaits of the upload task,   *)
(* and one action per delivered notification (handleNotification runs      *)
(* synchronously from the "data" event).  A promise continuation that the  *)
(* handler has woken runs before the next transport event is dispatched.   *)
(***************************************************************************)
EXTENDS Integers, Sequences, FiniteSets, Bags, TLC

\* ------------------------------------------------------------------ bounds
MaxJpegLen == 1      \* longest JPEG body handed to upload, in bytes
MaxNotifs == 2       \* notifications the device delivers in one behaviour
MaxFree == 1         \* largest freespace value (KB) a status packet reports
MaxFrames == 1       \* most frames the extractor yields for one animation
MaxBuildFrames == 4  \* most frames handed to the xV4 builder on its own
MaxPieces == 3  \* most pieces a notification handed to the parser holds

\* --------------------------------------------------------- program constants
CMD_TYPE == 241
DYNAMIC_AMBIENCE == 5
IMAGE == 6
DEVICE_STATUS == 13
IMB_HEADER_SIZE == 36
MIN_FRAMES == 2
INTERVAL_MS == 50

Null == <<>>
Some(x) == <<x>>

\* --------------------------------------------------------------- byte helpers
\* the sum of the bytes of a buffer: the size of the bag that holds index k
\* s[k] times (a zero byte adds nothing)
SumSeq(s) ==
    BagCardinality([k \in {j \in 1..Len(s) : s[j] > 0} |-> s[k]])

\* Buffer.alloc(n): n zero bytes
Zeros(n) == IF n <= 0 THEN <<>> ELSE [k \in 1..n |-> 0]

RECURSIVE Flatten(_)
Flatten(ss) == IF ss = <<>> THEN <<>> ELSE Head(ss) \o Flatten(Tail(ss))

\* a 16-bit field written low byte first
UInt16BE_m(n) == <<n % 256, (n \div 256) % 256>>

\* Buffer.writeUInt16BE / writeUInt16LE / writeUInt32LE
UInt16BE(n) == <<(n \div 256) % 256, n % 256>>
UInt16LE(n) == <<n % 256, (n \div 256) % 256>>
UInt32LE(n) == <<n % 256, (n \div 256) % 256, (n \div 65536) % 256,
                 (n \div 16777216) % 256>>

\* decimal digits of a non-negative integer, as ASCII codes
RECURSIVE Decimal(_)
Decimal(n) == IF n < 10 THEN <<48 + n>>
              ELSE Decimal(n \div 10) \o <<48 + (n % 10)>>

\* Buffer.subarray(start, end)
Subarray(buf, start, end) == SubSeq(buf, start + 1, end)

CeilDiv(a, b) == (a + b - 1) \div b
Min(a, b) == IF a < b THEN a ELSE b

\* ----------------------------------------------------------- IMBHeaderBuilder
\* A JavaScript number that may exceed 32 bits is kept as <<high, low>>,
\* standing for high * 65536 + low with low in 0..65535.
WideOf(n) == <<n \div 65536, n % 65536>>
WideAdd(a, k) == <<a[1] + (a[2] + k) \div 65536, (a[2] + k) % 65536>>
InUInt32(a) == a[1] <= 65535

\* the four bytes writeUInt32LE leaves for a value, reduced to 32 bits
UInt32LEWide(a) == UInt16LE(a[2]) \o UInt16LE(a[1] % 65536)
\* Buffer.readUInt32LE(offset)
ReadUInt32LE(buf, offset) ==
    <<buf[offset + 3] + 256 * buf[offset + 4],
      buf[offset + 1] + 256 * buf[offset + 2]>>
ReadUInt16LE(buf, offset) == buf[offset + 1] + 256 * buf[offset + 2]

\* what a Buffer write throws for a value outside the field's range
RangeError == <<"RangeError">>

\* the header with the total size field holding the JPEG size alone
IMBBytes_m(jpegSize, width, height) ==
    <<73, 77, 66>> \o <<0>>
    \o UInt32LE(IMB_HEADER_SIZE)
    \o UInt32LEWide(jpegSize)
    \o <<11>> \o <<0>>
    \o UInt16LE(0)
    \o UInt16LE(width) \o UInt16LE(height)
    \o UInt32LE(IMB_HEADER_SIZE)
    \o UInt32LEWide(jpegSize)
    \o UInt32LE(0) \o UInt32LE(0)

\* the 36 bytes build() writes, jpegSize as <<high, low>>
IMBBytes(jpegSize, width, height) ==
    <<73, 77, 66>> \o <<0>>
    \o UInt32LE(IMB_HEADER_SIZE)
    \o UInt32LEWide(WideAdd(jpegSize, IMB_HEADER_SIZE))
    \o <<11>> \o <<0>>
    \o UInt16LE(0)
    \o UInt16LE(width) \o UInt16LE(height)
    \o UInt32LE(IMB_HEADER_SIZE)
    \o UInt32LEWide(jpegSize)
    \o UInt32LE(0) \o UInt32LE(0)

\* IMBHeaderBuilder.build(): what a call may return.  writeUInt32LE and
\* writeUInt16LE are given a value their field cannot hold when the total
\* size passes 2^32 - 1 or a dimension passes 65535: the runtime then throws
\* a RangeError, or (a runtime without the check) writes the low bits.
IMBHeaderBuild(jpegSize, width, height) ==
    IF /\ InUInt32(WideAdd(jpegSize, IMB_HEADER_SIZE))
       /\ width \in 0..65535
       /\ height \in 0..65535
    THEN {IMBBytes(jpegSize, width, height)}
    ELSE {RangeError, IMBBytes(jpegSize, width, height)}

\* build() for a size and dimensions within range
IMBBuild(jpegSize, width, height) == IMBBytes(WideOf(jpegSize), width, height)

\* IMBHeaderBuilder.validate()
IMBValidate(header) ==
    /\ Len(header) = IMB_HEADER_SIZE
    /\ SubSeq(header, 1, 3) = <<73, 77, 66>>
    /\ header[4] = 0
    /\ ReadUInt32LE(header, 4) = WideOf(IMB_HEADER_SIZE)
    /\ ReadUInt32LE(header, 20) = WideOf(IMB_HEADER_SIZE)

\* ----------------------------------------------------------- XV4HeaderBuilder
Max(a, b) == IF a > b THEN a ELSE b

\* Buffer.alloc(12) with the bytes copied in: truncated or zero-padded
Fit12(bytes) == IF Len(bytes) >= 12 THEN SubSeq(bytes, 1, 12)
                ELSE bytes \o Zeros(12 - Len(bytes))

RECURSIVE DataSizeUpTo(_, _)
\* sum over the first n frames of FRAME_METADATA_SIZE + frame.data.length
DataSizeUpTo(frames, n) ==
    IF n = 0 THEN 0
    ELSE DataSizeUpTo(frames, n - 1) + 32 + Len(frames[n].data)

frameTableOffset(frames, k) == 32 + 16 * Len(frames) + DataSizeUpTo(frames, k - 1)

\* the header with the interval only raised to 50, never lowered to 99
XV4Header_m(frames, intervalMs) ==
    LET frameCount == Len(frames)
        frameTableEnd == 32 + frameCount * 16
        clampedInterval == Max(50, intervalMs)
        timingStr == <<111, 117, 116, 112, 117, 116, 47>>
                     \o Decimal(clampedInterval) \o <<109, 115>>
    IN  <<120, 86, 52>> \o <<18>>
        \o UInt32LE(frameTableEnd - 8)
        \o UInt32LE(frameCount)
        \o UInt32LE(frameCount * 10 + 10)
        \o Fit12(timingStr)
        \o UInt32LE(DataSizeUpTo(frames, frameCount))

XV4Header(frames, intervalMs) ==
    LET frameCount == Len(frames)
        frameTableEnd == 32 + frameCount * 16
        clampedInterval == Max(50, Min(99, intervalMs))
        timingStr == <<111, 117, 116, 112, 117, 116, 47>>
                     \o Decimal(clampedInterval) \o <<109, 115>>
    IN  <<120, 86, 52>> \o <<18>>
        \o UInt32LE(frameTableEnd - 8)
        \o UInt32LE(frameCount)
        \o UInt32LE(frameCount * 10 + 10)
        \o Fit12(timingStr)
        \o UInt32LE(DataSizeUpTo(frames, frameCount))

\* the entry of a builder that cuts the name to 11 bytes and then
\* appends the dot
XV4TableEntry_m(frames, k) ==
    Fit12(SubSeq(frames[k].name, 1, Min(11, Len(frames[k].name))) \o <<46>>)
    \o UInt32LE(frameTableOffset(frames, k))

\* one entry of the frame table: nameWithDot copied into a 12-byte buffer,
\* then the offset of the frame's metadata block
XV4TableEntry(frames, k) ==
    Fit12(frames[k].name \o <<46>>) \o UInt32LE(frameTableOffset(frames, k))

\* the block of a frame whose next pointer always is the following block,
\* the last frame's included
XV4FrameData_m(frames, k, width, height) ==
    LET frameCount == Len(frames)
        currentTableOffset == frameTableOffset(frames, k)
        nextTableOffset == frameTableOffset(frames, k + 1)
    IN  UInt32LE(currentTableOffset)
        \o UInt32LE(nextTableOffset)
        \o UInt32LE(Max(0, frameCount - 3))
        \o UInt16LE(width) \o UInt16LE(height)
        \o UInt32LE(currentTableOffset + 32)
        \o UInt32LE(Len(frames[k].data))
        \o Zeros(8)
        \o frames[k].data

XV4FrameData(frames, k, width, height) ==
    LET frameCount == Len(frames)
        currentTableOffset == frameTableOffset(frames, k)
        nextTableOffset == IF k < frameCount
                           THEN frameTableOffset(frames, k + 1)
                           ELSE frameTableOffset(frames, 1)
    IN  UInt32LE(currentTableOffset)
        \o UInt32LE(nextTableOffset)
        \o UInt32LE(Max(0, frameCount - 3))
        \o UInt16LE(width) \o UInt16LE(height)
        \o UInt32LE(currentTableOffset + 32)
        \o UInt32LE(Len(frames[k].data))
        \o Zeros(8)
        \o frames[k].data

\* the container of a mutant whose running offset leaves out the 32 bytes
\* of metadata in front of each JPEG
XV4Build_m(frames, intervalMs, width, height) ==
    XV4Header(frames, intervalMs)
    \o Flatten([k \in 1..Len(frames) |->
                  Fit12(frames[k].name \o <<46>>)
                  \o UInt32LE(frameTableOffset(frames, k) - 32 * (k - 1))])
    \o Flatten([k \in 1..Len(frames) |-> XV4FrameData(frames, k, width, height)])

\* XV4HeaderBuilder.build for a non-empty frame list (an empty one throws)
XV4Build(frames, intervalMs, width, height) ==
    XV4Header(frames, intervalMs)
    \o Flatten([k \in 1..Len(frames) |-> XV4TableEntry(frames, k)])
    \o Flatten([k \in 1..Len(frames) |-> XV4FrameData(frames, k, width, height)])

\* throw new Error("At least one frame is required")
NoFramesError == <<"Error: At least one frame is required">>

\* build() without the check for an empty frame list
XV4HeaderBuild_m(frames, intervalMs, width, height) ==
    XV4Build(frames, intervalMs, width, height)

\* XV4HeaderBuilder.build()
XV4HeaderBuild(frames, intervalMs, width, height) ==
    IF Len(frames) = 0 THEN NoFramesError
    ELSE XV4Build(frames, intervalMs, width, height)

\* ------------------------------------------------------------- PayloadBuilder
\* the info object built with its keys the other way round
buildImageInfo_m(imageType, number) ==
    <<123, 34, 110, 117, 109, 98, 101, 114, 34, 58>> \o Decimal(number)
    \o <<44, 34, 116, 121, 112, 101, 34, 58>> \o Decimal(imageType)
    \o <<125>>

\* JSON.stringify({type, number}) as UTF-8
buildImageInfo(imageType, number) ==
    <<123, 34, 116, 121, 112, 101, 34, 58>> \o Decimal(imageType)
    \o <<44, 34, 110, 117, 109, 98, 101, 114, 34, 58>> \o Decimal(number)
    \o <<125>>

\* `{"type":${imageType},"data":`
dataPrefix(imageType) ==
    <<123, 34, 116, 121, 112, 101, 34, 58>> \o Decimal(imageType)
    \o <<44, 34, 100, 97, 116, 97, 34, 58>>

dataSuffix == <<125>>

\* the payload with the JPEG passed through a UTF-8 text conversion: every
\* byte above 127 comes back as the replacement character EF BF BD
buildImageData_m(jpegData, targetSize, imageType) ==
    dataPrefix(imageType)
    \o IMBBuild(Len(jpegData), targetSize[1], targetSize[2])
    \o Flatten([k \in 1..Len(jpegData) |->
                  IF jpegData[k] > 127 THEN <<239, 191, 189>>
                  ELSE <<jpegData[k]>>])
    \o dataSuffix

buildImageData(jpegData, targetSize, imageType) ==
    dataPrefix(imageType)
    \o IMBBuild(Len(jpegData), targetSize[1], targetSize[2])
    \o jpegData \o dataSuffix

\* the error of XV4HeaderBuilder.build() passes through
buildAnimationData(frames, intervalMs, targetSize) ==
    LET xv4Container ==
            XV4HeaderBuild(frames, intervalMs, targetSize[1], targetSize[2])
    IN  IF xv4Container = NoFramesError THEN NoFramesError
        ELSE dataPrefix(DYNAMIC_AMBIENCE) \o xv4Container \o dataSuffix

\* createPacket with the checksum left as the plain sum of the bytes
createPacket_m(payload, totalPacketCount, remainingPackets, packetType) ==
    LET header == <<CMD_TYPE % 256, packetType % 256>>
                  \o UInt16BE(totalPacketCount % 65536)
                  \o UInt16BE(remainingPackets % 65536)
                  \o UInt16BE(Len(payload) % 65536)
        body == header \o payload
    IN  body \o <<SumSeq(body) % 256>>

\* header + payload + checksum, checksum = (-sum) & 0xff
createPacket(payload, totalPacketCount, remainingPackets, packetType) ==
    LET header == <<CMD_TYPE % 256, packetType % 256>>
                  \o UInt16BE(totalPacketCount % 65536)
                  \o UInt16BE(remainingPackets % 65536)
                  \o UInt16BE(Len(payload) % 65536)
        body == header \o payload
        checksum == (256 - (SumSeq(body) % 256)) % 256
    IN  body \o <<checksum>>

\* ------------------------------------------------------------- ResponseParser
\* A notification is a sequence of tokens: a run of NUL bytes, a run of ASCII
\* whitespace, a literal piece of text, or the text of one JSON object.
Tok(t, v, type, freespace) ==
    [t |-> t, v |-> v, type |-> type, freespace |-> freespace]
Nul == Tok("nul", "", 0, 0)
Ws == Tok("ws", "", 0, 0)
Lit(v) == Tok("lit", v, 0, 0)
Json(type, freespace) == Tok("json", "", type, freespace)

SUCCESS == "GetPacketSuccess"
FAIL == "PacketFail"
ERROR == "1111111111"

RECURSIVE DropNul(_)
DropNul(s) == IF s = <<>> THEN <<>>
              ELSE IF Head(s).t = "nul" THEN DropNul(Tail(s))
              ELSE <<Head(s)>> \o DropNul(Tail(s))

RECURSIVE TrimLeft(_)
TrimLeft(s) == IF s # <<>> /\ Head(s).t = "ws" THEN TrimLeft(Tail(s)) ELSE s

RECURSIVE TrimRight(_)
TrimRight(s) == IF s # <<>> /\ s[Len(s)].t = "ws"
                THEN TrimRight(SubSeq(s, 1, Len(s) - 1)) ELSE s

\* data.toString().replace(/\x00/g, "").trim()
CleanText(data) == TrimRight(TrimLeft(DropNul(data)))

Includes(text, v) == \E k \in 1..Len(text) : text[k].t = "lit" /\ text[k].v = v

JsonIdx(text) == {k \in 1..Len(text) : text[k].t = "json"}

\* JSON.parse of the whole text, else of the part from the first "{" to the
\* last "}"; the result is Null or Some(object)
extractJson(text) ==
    IF Len(text) = 1 /\ text[1].t = "json"
    THEN Some([type |-> text[1].type, freespace |-> text[1].freespace])
    ELSE IF Cardinality(JsonIdx(text)) = 1
         THEN LET k == CHOOSE k \in JsonIdx(text) : TRUE
              IN  Some([type |-> text[k].type, freespace |-> text[k].freespace])
         ELSE Null

isDeviceStatusPacket(jsonData) ==
    jsonData # Null /\ jsonData[1].type = DEVICE_STATUS

\* parse() looking for a sentinel only in text that holds no JSON object
parse_m(data) ==
    IF Len(data) = 0
    THEN [rawText |-> <<>>, status |-> "none", jsonData |-> Null,
          isStatus |-> FALSE]
    ELSE LET rawText == CleanText(data)
             jsonData == extractJson(rawText)
             status == IF jsonData # Null THEN "none"
                       ELSE IF Includes(rawText, SUCCESS) THEN SUCCESS
                       ELSE IF Includes(rawText, FAIL) THEN FAIL
                       ELSE IF Includes(rawText, ERROR) THEN ERROR
                       ELSE "none"
         IN  [rawText |-> rawText, status |-> status, jsonData |-> jsonData,
              isStatus |-> isDeviceStatusPacket(jsonData)]

\* ResponseParser.parse()
parse(data) ==
    IF Len(data) = 0
    THEN [rawText |-> <<>>, status |-> "none", jsonData |-> Null,
          isStatus |-> FALSE]
    ELSE LET rawText == CleanText(data)
             status == IF Includes(rawText, SUCCESS) THEN SUCCESS
                       ELSE IF Includes(rawText, FAIL) THEN FAIL
                       ELSE IF Includes(rawText, ERROR) THEN ERROR
                       ELSE "none"
             jsonData == extractJson(rawText)
         IN  [rawText |-> rawText, status |-> status, jsonData |-> jsonData,
              isStatus |-> isDeviceStatusPacket(jsonData)]

isSuccess(response) == response.status = SUCCESS
isFail(response) == response.status = FAIL
isError(response) == response.status = ERROR

\* the notifications the device may deliver
Notifs ==
    { <<>>, <<Lit(SUCCESS)>>, <<Lit(FAIL)>>, <<Nul, Lit(ERROR), Ws>>,
      <<Lit("text")>>, <<Json(IMAGE, 0)>> }
    \cup { <<Json(DEVICE_STATUS, f)>> : f \in 0..MaxFree }

\* ---------------------------------------------------------------- the state
VARIABLES
    cfg,                  \* ProtocolConfig and the verbose switch
    \* NotificationHandler
    waitingForAck, packetSuccessCount, errorFlag, lastNotification,
    deviceStatus, deviceReady, deviceStatusReceived, allNotifications,
    notificationResolve, statusResolve,
    \* BleUploader
    peripheral, writeCharacteristic, notifyCharacteristic, isInitialized,
    listening,            \* the "data" listener is attached
    \* the upload task
    pc,                   \* where the task is suspended
    woken,                \* the promise it awaits has been resolved
    connected,            \* what connect() returned: "none", "true", "false"
    kind,                 \* "image" or "animation"
    jpegData,             \* the prepared JPEG of a still image
    frames,               \* the extracted frames of an animation
    fullData, i,
    written,              \* frames handed to writeAsync, in order
    progress,             \* values passed to onProgress, as <<num, den>>
    result,               \* what upload() returned or threw
    \* observation
    nRecv,                \* notifications delivered so far
    errorAt,              \* the phases (see Phase) in which an ERROR
                          \* notification has been handled
    \* the builders called on their own
    call,                 \* <<function, arguments...>>
    ret                   \* Null, or Some(what the call returned)

handlerVars == <<waitingForAck, packetSuccessCount, errorFlag, lastNotification,
                 deviceStatus, deviceReady, deviceStatusReceived,
                 allNotifications, notificationResolve, statusResolve>>
bleVars == <<peripheral, writeCharacteristic, notifyCharacteristic,
             isInitialized, listening>>
inputVars == <<kind, jpegData, frames>>
taskVars == <<pc, woken, connected, inputVars, fullData, i, written, progress,
              result>>
vars == <<cfg, handlerVars, bleVars, taskVars, nRecv, errorAt, call, ret>>

\* configurations a caller may construct the uploader with
ChunkSizes == {20, 28, 64}
MaxPayloadSizes == {54, 2097152}
MaxPacketCounts == {2, 20000}
\* verbose only adds to the notification log: it is switched on with the
\* default limits and one chunk size
Configs ==
    [chunkSize : ChunkSizes, maxPayloadSize : MaxPayloadSizes,
     maxPacketCount : MaxPacketCounts, cmdSubtype : {IMAGE}, verbose : {FALSE}]
    \cup
    [chunkSize : {64}, maxPayloadSize : {2097152}, maxPacketCount : {20000},
     cmdSubtype : {IMAGE}, verbose : {TRUE}]

JpegBytes == {255, 216}
Jpegs == UNION {[1..n -> JpegBytes] : n \in 0..MaxJpegLen}
defaultSize == <<368, 368>>
animationsSize == <<360, 360>>

\* `frame_${String(k).padStart(5, "0")}`
PadStart5(digits) == SubSeq(<<48, 48, 48, 48, 48>>, 1, 5 - Len(digits)) \o digits
FrameName(k) == <<102, 114, 97, 109, 101, 95>> \o PadStart5(Decimal(k))

\* what FrameExtractor.extractFrames may return: at least one frame
FrameJpegs == {<<>>, <<255>>}
FrameLists == UNION {[1..n -> [name : {<<>>}, data : FrameJpegs]]
                       : n \in 1..MaxFrames}
ExtractFrames == {[k \in 1..Len(fl) |-> [name |-> FrameName(k),
                                         data |-> fl[k].data]] : fl \in FrameLists}

\* uploadAnimation(): pad to MIN_FRAMES by duplicating the last frame
RECURSIVE PadFrames(_)
PadFrames(fs) ==
    IF Len(fs) < MIN_FRAMES
    THEN PadFrames(Append(fs, [name |-> FrameName(Len(fs) + 1),
                               data |-> fs[Len(fs)].data]))
    ELSE fs

\* the state after `new BeamBoxUploader(...)`
Constructed ==
    /\ cfg \in Configs
    /\ waitingForAck = FALSE
    /\ packetSuccessCount = 0
    /\ errorFlag = FALSE
    /\ lastNotification = Null
    /\ deviceStatus = Null
    /\ deviceReady = FALSE
    /\ deviceStatusReceived = FALSE
    /\ allNotifications = <<>>
    /\ notificationResolve = FALSE
    /\ statusResolve = FALSE
    /\ peripheral = FALSE
    /\ writeCharacteristic = FALSE
    /\ notifyCharacteristic = FALSE
    /\ isInitialized = FALSE
    /\ listening = FALSE
    /\ pc = "new"
    /\ woken = FALSE
    /\ connected = "none"
    /\ kind = "image"
    /\ jpegData = <<>>
    /\ frames = <<>>
    /\ fullData = <<>>
    /\ i = 0
    /\ written = <<>>
    /\ progress = <<>>
    /\ result = "none"
    /\ nRecv = 0
    /\ errorAt = {}

Init ==
    /\ Constructed
    /\ call = <<>>
    /\ ret = Null

\* -------------------------------------------------------- NotificationHandler
\* notificationResolve(); notificationResolve = null
ResolveNotification ==
    /\ notificationResolve' = FALSE
    /\ woken' = (woken \/ (notificationResolve /\ pc = "finalize"))

\* where the upload task is when a notification is handled
Phase == IF pc \in {"dataWrite", "chunkSleep"} THEN "streaming"
         ELSE IF pc = "finalize" THEN "finalize"
         ELSE "other"

handleNotification(data) ==
    LET response == parse(data) IN
    /\ allNotifications' =
          IF cfg.verbose
          THEN Append(allNotifications, [data |-> data, parsed |-> response])
          ELSE allNotifications
    /\ IF response.rawText = <<>> THEN
          UNCHANGED <<packetSuccessCount, errorFlag, lastNotification,
                      deviceStatus, deviceReady, deviceStatusReceived,
                      notificationResolve, statusResolve, woken, errorAt>>
       ELSE IF isSuccess(response) THEN
          /\ packetSuccessCount' = packetSuccessCount + 1
          /\ IF waitingForAck /\ notificationResolve
             THEN ResolveNotification
             ELSE UNCHANGED <<notificationResolve, woken>>
          /\ UNCHANGED <<errorFlag, lastNotification, deviceStatus, deviceReady,
                         deviceStatusReceived, statusResolve, errorAt>>
       ELSE IF isFail(response) THEN
          /\ ResolveNotification
          /\ UNCHANGED <<packetSuccessCount, errorFlag, lastNotification,
                         deviceStatus, deviceReady, deviceStatusReceived,
                         statusResolve, errorAt>>
       ELSE IF isError(response) THEN
          /\ errorFlag' = TRUE
          /\ errorAt' = errorAt \cup {Phase}
          /\ ResolveNotification
          /\ UNCHANGED <<packetSuccessCount, lastNotification, deviceStatus,
                         deviceReady, deviceStatusReceived, statusResolve>>
       ELSE IF response.jsonData # Null THEN
          /\ lastNotification' = response.jsonData
          /\ IF response.isStatus
             THEN /\ deviceStatus' = response.jsonData
                  /\ deviceReady' = TRUE
                  /\ deviceStatusReceived' = TRUE
                  /\ statusResolve' = FALSE
                  /\ notificationResolve' = FALSE
                  /\ woken' = (woken
                               \/ (statusResolve /\ pc = "awaitStatus")
                               \/ (notificationResolve /\ pc = "finalize"))
             ELSE /\ ResolveNotification
                  /\ UNCHANGED <<deviceStatus, deviceReady,
                                 deviceStatusReceived, statusResolve>>
          /\ UNCHANGED <<packetSuccessCount, errorFlag, errorAt>>
       ELSE
          /\ ResolveNotification
          /\ UNCHANGED <<packetSuccessCount, errorFlag, lastNotification,
                         deviceStatus, deviceReady, deviceStatusReceived,
                         statusResolve, errorAt>>

\* the transport emits "data" on the notify characteristic
Notify(data) ==
    /\ listening
    /\ ~woken
    /\ nRecv < MaxNotifs
    /\ nRecv' = nRecv + 1
    /\ handleNotification(data)
    /\ UNCHANGED <<cfg, waitingForAck, bleVars, pc, connected, inputVars,
                   fullData, i, written, progress, result, call, ret>>

\* NotificationHandler.reset()
reset ==
    /\ notificationResolve' = FALSE
    /\ statusResolve' = FALSE
    /\ errorFlag' = FALSE

\* ---------------------------------------------------------------- BleUploader
\* disconnect() with the listeners left on the notify characteristic
disconnect_m == listening' = listening

\* disconnect(): notifyCharacteristic.removeAllListeners(), then unsubscribe,
\* disconnectAsync and stopScanning best-effort; the fields keep their
\* values.  The listener is only ever attached to a characteristic the
\* field holds, so the `if (this.notifyCharacteristic)` always covers it.
disconnect == listening' = FALSE

\* the steps of connect() that can fail, and what each throws when it does
FailurePhases == {"new", "scan", "connecting", "discover"}
ThrownAt(phase) ==
    CASE phase = "new" -> "ConnectionError: Bluetooth adapter is not powered on"
      [] phase = "scan" -> "DeviceNotFoundError"
      [] phase = "connecting" -> "connectAsync rejected"
      [] phase = "discover" ->
            "ConnectionError: Could not find required characteristics"

\* connect(): catch (error) { logger.error(...); disconnect(); return false }
connectOutcome(error) == "false"

\* connect() failed: the catch block disconnects and returns false
ConnectFailed ==
    /\ disconnect
    /\ pc' = "idle"
    /\ connected' = connectOutcome(ThrownAt(pc))

\* connect(): initBluetooth()
ConnectInit(poweredOn) ==
    /\ pc = "new"
    /\ IF poweredOn
       THEN /\ isInitialized' = TRUE
            /\ pc' = "scan"
            /\ UNCHANGED <<listening, connected>>
       ELSE /\ ConnectFailed
            /\ UNCHANGED isInitialized
    /\ UNCHANGED <<cfg, handlerVars, peripheral, writeCharacteristic,
                   notifyCharacteristic, woken, inputVars, fullData, i, written,
                   progress, result, nRecv, errorAt, call, ret>>

\* connect(): the scan by name or by address ends with a match or times out
Scan(found) ==
    /\ pc = "scan"
    /\ IF found
       THEN /\ peripheral' = TRUE
            /\ pc' = "connecting"
            /\ UNCHANGED <<listening, connected>>
       ELSE /\ ConnectFailed
            /\ UNCHANGED peripheral
    /\ UNCHANGED <<cfg, handlerVars, writeCharacteristic, notifyCharacteristic,
                   isInitialized, woken, inputVars, fullData, i, written,
                   progress, result, nRecv, errorAt, call, ret>>

\* connect(): peripheral.connectAsync()
ConnectAsync(ok) ==
    /\ pc = "connecting"
    /\ IF ok
       THEN /\ pc' = "discover"
            /\ UNCHANGED <<listening, connected>>
       ELSE ConnectFailed
    /\ UNCHANGED <<cfg, handlerVars, peripheral, writeCharacteristic,
                   notifyCharacteristic, isInitialized, woken, inputVars,
                   fullData, i, written, progress, result, nRecv, errorAt, call, ret>>

\* connect(): discoverCharacteristics()
discoverCharacteristics(hasWrite, hasNotify) ==
    /\ pc = "discover"
    /\ writeCharacteristic' = hasWrite
    /\ notifyCharacteristic' = hasNotify
    /\ IF hasWrite /\ hasNotify
       THEN /\ pc' = "subscribe"
            /\ UNCHANGED <<listening, connected>>
       ELSE ConnectFailed
    /\ UNCHANGED <<cfg, handlerVars, peripheral, isInitialized, woken,
                   inputVars, fullData, i, written, progress, result, nRecv,
                   errorAt, call, ret>>

\* connect(): subscribeAsync(), on("data"), then waitForStatus() raced
\* against sleep(5000)
Subscribe ==
    /\ pc = "subscribe"
    /\ listening' = TRUE
    /\ IF deviceStatusReceived
       THEN /\ woken' = TRUE
            /\ UNCHANGED statusResolve
       ELSE /\ statusResolve' = TRUE
            /\ UNCHANGED woken
    /\ pc' = "awaitStatus"
    /\ UNCHANGED <<cfg, waitingForAck, packetSuccessCount, errorFlag,
                   lastNotification, deviceStatus, deviceReady,
                   deviceStatusReceived, allNotifications, notificationResolve,
                   peripheral, writeCharacteristic, notifyCharacteristic,
                   isInitialized, connected, inputVars, fullData, i, written,
                   progress, result, nRecv, errorAt, call, ret>>

\* connect() reporting the ready flag instead of true
StatusWaitEnd_m ==
    /\ pc = "awaitStatus"
    /\ woken' = FALSE
    /\ pc' = "ready"
    /\ connected' = (IF deviceReady THEN "true" ELSE "false")
    /\ UNCHANGED <<cfg, handlerVars, bleVars, inputVars, fullData, i, written,
                   progress, result, nRecv, errorAt, call, ret>>

\* connect(): the race ended, by the status waiter or by the timeout
StatusWaitEnd ==
    /\ pc = "awaitStatus"
    /\ woken' = FALSE
    /\ pc' = "ready"
    /\ connected' = "true"
    /\ UNCHANGED <<cfg, handlerVars, bleVars, inputVars, fullData, i, written,
                   progress, result, nRecv, errorAt, call, ret>>

\* --------------------------------------------------------------- sendData
totalChunks == CeilDiv(Len(fullData), cfg.chunkSize)

\* the slice taken from the start of the buffer on every pass
Chunk_m(data, chunkSize, k) == Subarray(data, 0, Min(chunkSize, Len(data)))

\* fullData.subarray(start, end) of pass k
Chunk(data, chunkSize, k) ==
    Subarray(data, k * chunkSize, Min(k * chunkSize + chunkSize, Len(data)))

\* the packet type upload() passes to sendData for every kind of content
packetTypeArg_m == IMAGE

\* the packet type the uploader passes to sendData: PacketType.IMAGE from
\* upload(), PacketType.DYNAMIC_AMBIENCE from uploadAnimation()
packetTypeArg == IF kind = "image" THEN IMAGE ELSE DYNAMIC_AMBIENCE

\* sendData(fullData, packetType, onProgress) frames every chunk with the
\* packet type it is handed
sendDataSubtype == packetTypeArg

\* the countdown started at total instead of total - 1
DataPacket_m(data, chunkSize, k) ==
    LET total == CeilDiv(Len(data), chunkSize)
    IN  createPacket(Chunk(data, chunkSize, k), total, total - k,
                     sendDataSubtype)

\* one pass of the loop body up to writeAsync
DataPacket(data, chunkSize, k) ==
    LET total == CeilDiv(Len(data), chunkSize)
    IN  createPacket(Chunk(data, chunkSize, k), total, total - 1 - k,
                     sendDataSubtype)

\* --------------------------------------------------------- BeamBoxUploader
\* validatePayloadLimits without the packet-count check
WithinLimits_m(payloadSizeBytes) == ~(payloadSizeBytes > cfg.maxPayloadSize)

\* validatePayloadLimits passes
WithinLimits(payloadSizeBytes) ==
    /\ ~(payloadSizeBytes > cfg.maxPayloadSize)
    /\ ~(CeilDiv(payloadSizeBytes, cfg.chunkSize) > cfg.maxPacketCount)

\* the largest power of two that is not above n (n >= 1)
RECURSIVE Pow2Floor(_)
Pow2Floor(n) == IF n < 2 THEN 1 ELSE 2 * Pow2Floor(n \div 2)

\* Math.ceil(n * 1.1) in IEEE-754 double arithmetic.  The double nearest to
\* 1.1 is 11/10 + (2/5) * 2^-52, so the exact product is 11n/10 + n / (5 * 2^51)
\* and is then rounded to the nearest double.  When 11n/10 is not an integer
\* the excess is far too small to reach the next integer and the result is
\* ceil(11n/10).  When N = 11n/10 is an integer and 2^e <= N < 2^(e+1), the
\* doubles around N are 2^(e-52) apart: the product rounds to a double above
\* N, and the ceiling is N + 1, exactly when n / (5 * 2^51) > 2^(e-53), that
\* is 4n > 5 * 2^e (at equality the tie goes to N, whose mantissa is even).
CeilTimes1_1(n) ==
    IF n > 0 /\ n % 10 = 0
    THEN LET N == (11 * n) \div 10
         IN  IF 4 * n > 5 * Pow2Floor(N) THEN N + 1 ELSE N
    ELSE CeilDiv(11 * n, 10)

checkStorageCapacity(payloadSizeBytes) ==
    IF deviceStatus = Null THEN FALSE
    ELSE LET freespaceBytes == deviceStatus[1].freespace * 1024
             requiredBytes == CeilTimes1_1(payloadSizeBytes)
         IN  ~(freespaceBytes < requiredBytes)

\* upload() of a still image: up to the settle sleep
Upload(jpeg) ==
    /\ pc \in {"new", "idle", "ready"}
    /\ result = "none"
    /\ kind' = "image"
    /\ jpegData' = jpeg
    /\ pc' = "settle"
    /\ UNCHANGED <<cfg, handlerVars, bleVars, woken, connected, frames,
                   fullData, i, written, progress, result, nRecv, errorAt, call, ret>>

\* upload() of a GIF or video: uploadAnimation() up to the settle sleep
uploadAnimation(extracted) ==
    /\ pc \in {"new", "idle", "ready"}
    /\ result = "none"
    /\ kind' = "animation"
    /\ frames' = PadFrames(extracted)
    /\ pc' = "settle"
    /\ UNCHANGED <<cfg, handlerVars, bleVars, woken, connected, jpegData,
                   fullData, i, written, progress, result, nRecv, errorAt, call, ret>>

\* the payload the upload composes
ComposedPayload ==
    IF kind = "image"
    THEN buildImageData(jpegData, defaultSize, IMAGE)
    ELSE buildAnimationData(frames, INTERVAL_MS, animationsSize)

\* the info packet framed with the subtype of the content
InfoPacket_m ==
    createPacket(buildImageInfo(IMAGE, 1), 0, 0,
                 IF kind = "image" THEN IMAGE ELSE DYNAMIC_AMBIENCE)

\* sendImageInfo(): the packet it builds from the payload upload() hands it
InfoPacket == createPacket(buildImageInfo(IMAGE, 1), 0, 0, IMAGE)

\* upload(): build the payload, validate, check storage, sendImageInfo up to
\* its writeAsync
Announce ==
    /\ pc = "settle"
    /\ LET data == ComposedPayload IN
       /\ fullData' = data
       /\ IF ~WithinLimits(Len(data))
          THEN /\ pc' = "done"
               /\ result' = "UploadError"
               /\ UNCHANGED written
          ELSE IF ~checkStorageCapacity(Len(data))
          THEN /\ pc' = "done"
               /\ result' = "UploadError"
               /\ UNCHANGED written
          ELSE IF ~writeCharacteristic
          THEN /\ pc' = "done"
               /\ result' = "ConnectionError"
               /\ UNCHANGED written
          ELSE /\ written' = Append(written, InfoPacket)
               /\ pc' = "infoWrite"
               /\ UNCHANGED result
    /\ UNCHANGED <<cfg, handlerVars, bleVars, woken, connected, inputVars, i,
                   progress, nRecv, errorAt, call, ret>>

\* sendImageInfo(): writeAsync resolved, sleep(imageInfoDelay)
InfoWritten ==
    /\ pc = "infoWrite"
    /\ pc' = "infoSleep"
    /\ UNCHANGED <<cfg, handlerVars, bleVars, woken, connected, inputVars,
                   fullData, i, written, progress, result, nRecv, errorAt, call, ret>>

\* waitForResponse(): waitForNotification() raced against the timeout
waitForResponse ==
    /\ notificationResolve' = TRUE
    /\ pc' = "finalize"
    /\ UNCHANGED <<result, errorFlag, statusResolve>>

\* sendData() returned: upload() returns false or goes on to waitForResponse
SendDataReturn ==
    IF errorFlag
    THEN /\ pc' = "done"
         /\ result' = "false"
         /\ UNCHANGED <<notificationResolve, errorFlag, statusResolve>>
    ELSE waitForResponse

\* sendData(): entry and the first pass of the loop up to writeAsync
SendDataStart ==
    /\ pc = "infoSleep"
    /\ IF ~writeCharacteristic
       THEN /\ pc' = "done"
            /\ result' = "ConnectionError"
            /\ UNCHANGED <<i, written, notificationResolve, errorFlag,
                           statusResolve>>
       ELSE IF 0 < totalChunks
       THEN /\ i' = 0
            /\ written' = Append(written,
                                 DataPacket(fullData, cfg.chunkSize, 0))
            /\ pc' = "dataWrite"
            /\ UNCHANGED <<result, notificationResolve, errorFlag,
                           statusResolve>>
       ELSE /\ SendDataReturn
            /\ UNCHANGED <<i, written>>
    /\ UNCHANGED <<cfg, waitingForAck, packetSuccessCount, lastNotification,
                   deviceStatus, deviceReady, deviceStatusReceived,
                   allNotifications, bleVars, woken, connected, inputVars,
                   fullData, progress, nRecv, errorAt, call, ret>>

\* the percentage computed from the index of the chunk instead of the count
Percent_m(k, total) == <<k * 100, total>>

\* the value passed to onProgress after chunk k: ((k + 1) / totalChunks) * 100
Percent(k, total) == <<(k + 1) * 100, total>>

\* progress reported before the flag is read
ChunkWritten_m ==
    /\ pc = "dataWrite"
    /\ progress' = Append(progress, Percent(i, totalChunks))
    /\ IF errorFlag
       THEN /\ pc' = "done"
            /\ result' = "false"
       ELSE /\ pc' = "chunkSleep"
            /\ UNCHANGED result
    /\ UNCHANGED <<cfg, handlerVars, bleVars, woken, connected, inputVars,
                   fullData, i, written, nRecv, errorAt, call, ret>>

\* sendData(): writeAsync resolved; errorFlag aborts, else progress and sleep
ChunkWritten ==
    /\ pc = "dataWrite"
    /\ IF errorFlag
       THEN /\ pc' = "done"
            /\ result' = "false"
            /\ UNCHANGED progress
       ELSE /\ progress' = Append(progress, Percent(i, totalChunks))
            /\ pc' = "chunkSleep"
            /\ UNCHANGED result
    /\ UNCHANGED <<cfg, handlerVars, bleVars, woken, connected, inputVars,
                   fullData, i, written, nRecv, errorAt, call, ret>>

\* sendData(): the sleep ended; next pass of the loop, or the loop is over
ChunkSlept ==
    /\ pc = "chunkSleep"
    /\ IF i + 1 < totalChunks
       THEN /\ i' = i + 1
            /\ written' = Append(written,
                                 DataPacket(fullData, cfg.chunkSize, i + 1))
            /\ pc' = "dataWrite"
            /\ UNCHANGED <<result, notificationResolve, errorFlag,
                           statusResolve>>
       ELSE /\ SendDataReturn
            /\ UNCHANGED <<i, written>>
    /\ UNCHANGED <<cfg, waitingForAck, packetSuccessCount, lastNotification,
                   deviceStatus, deviceReady, deviceStatusReceived,
                   allNotifications, bleVars, woken, connected, inputVars,
                   fullData, progress, nRecv, errorAt, call, ret>>

\* waitForResponse() without the timeout: only a notification ends the wait
FinalizeEnd_m ==
    /\ pc = "finalize"
    /\ woken
    /\ reset
    /\ woken' = FALSE
    /\ pc' = "done"
    /\ result' = IF errorFlag' THEN "false" ELSE "true"
    /\ UNCHANGED <<cfg, waitingForAck, packetSuccessCount, lastNotification,
                   deviceStatus, deviceReady, deviceStatusReceived,
                   allNotifications, bleVars, connected, inputVars, fullData, i,
                   written, progress, nRecv, errorAt, call, ret>>

\* waitForResponse(): the race ended, by a notification or by the timeout;
\* reset(), then return !errorFlag
FinalizeEnd ==
    /\ pc = "finalize"
    /\ reset
    /\ woken' = FALSE
    /\ pc' = "done"
    /\ result' = IF errorFlag' THEN "false" ELSE "true"
    /\ UNCHANGED <<cfg, waitingForAck, packetSuccessCount, lastNotification,
                   deviceStatus, deviceReady, deviceStatusReceived,
                   allNotifications, bleVars, connected, inputVars, fullData, i,
                   written, progress, nRecv, errorAt, call, ret>>

Next ==
    \/ \E b \in BOOLEAN : ConnectInit(b)
    \/ \E b \in BOOLEAN : Scan(b)
    \/ \E b \in BOOLEAN : ConnectAsync(b)
    \/ \E w, n \in BOOLEAN : discoverCharacteristics(w, n)
    \/ Subscribe
    \/ StatusWaitEnd
    \/ \E jpeg \in Jpegs : Upload(jpeg)
    \/ \E fs \in ExtractFrames : uploadAnimation(fs)
    \/ Announce
    \/ InfoWritten
    \/ SendDataStart
    \/ ChunkWritten
    \/ ChunkSlept
    \/ FinalizeEnd
    \/ \E data \in Notifs : Notify(data)

Spec == Init /\ [][Next]_vars

\* the steps of the upload task that need nothing from the device: a write
\* to a connected peripheral completes and a timer fires
UploadStep ==
    InfoWritten \/ SendDataStart \/ ChunkWritten \/ ChunkSlept \/ FinalizeEnd

FairSpec == Spec /\ WF_vars(UploadStep)

\* --------------------------------------------- the builders called on their own
InfoTypes == {0, DYNAMIC_AMBIENCE, IMAGE, DEVICE_STATUS, 100}
InfoNumbers == {0, 1, 3, 10, 255}
InfoCalls == {<<"buildImageInfo", t, n>> : t \in InfoTypes, n \in InfoNumbers}

\* JPEG sizes as <<high, low>>: 0, 1, 1024, 5 MB, and the sizes around the
\* largest whose total still fits 32 bits (2^32 - 37)
IMBSizes == {<<0, 0>>, <<0, 1>>, <<0, 1024>>, <<80, 0>>, <<65535, 65499>>,
             <<65535, 65500>>, <<65536, 0>>}
IMBDims == {1, 64, 368, 65535}
IMBCalls == {<<"IMBHeaderBuilder.build", j, w, h>> :
                j \in IMBSizes, w \in IMBDims, h \in IMBDims}

\* frame lists handed to the xV4 builder: none to MaxBuildFrames frames,
\* named as the extractor names them, each with a JPEG of 0 to 2 bytes
BuildJpegs == {<<>>, <<255>>, <<255, 216>>}
BuildFrameLists ==
    UNION {{[k \in 1..n |-> [name |-> FrameName(k), data |-> d[k]]] :
               d \in [1..n -> BuildJpegs]} : n \in 0..MaxBuildFrames}
BuildIntervals == {-1, 0, 9, 49, 50, 51, 75, 98, 99, 100, 1000}
XV4Calls == {<<"XV4HeaderBuilder.build", fs, r, animationsSize[1],
               animationsSize[2]>> :
                fs \in BuildFrameLists, r \in BuildIntervals}

\* JPEG bodies holding bytes a JSON encoder would escape or a text
\* conversion would change: a quote, a backslash, a brace, NUL, a newline
DataJpegs == {<<>>, <<255>>, <<34, 92>>, <<125, 0, 10>>}
DataSizes == {defaultSize, <<64, 32>>}
ImageDataCalls == {<<"buildImageData", j, sz, t>> :
                      j \in DataJpegs, sz \in DataSizes,
                      t \in {DYNAMIC_AMBIENCE, IMAGE, DEVICE_STATUS}}
AnimationDataCalls == {<<"buildAnimationData", fs, r, animationsSize>> :
                          fs \in BuildFrameLists, r \in {50, 1000}}

\* frame lists of one or two frames whose names have 0 to MaxNameLen bytes:
\* shorter than the name buffer, filling it with the dot, and longer
MaxNameLen == 13
NameOfLen(n) == [p \in 1..n |-> 97 + (p % 26)]
NamedFrameLists ==
    UNION {[1..n -> [name : {NameOfLen(l) : l \in 0..MaxNameLen},
                     data : {<<255>>}]] : n \in 1..2}
NamedXV4Calls == {<<"XV4HeaderBuilder.build", fs, 50, animationsSize[1],
                    animationsSize[2]>> : fs \in NamedFrameLists}

BuilderCalls == InfoCalls \cup IMBCalls \cup XV4Calls \cup ImageDataCalls
                \cup AnimationDataCalls \cup NamedXV4Calls

BuilderInit ==
    /\ Constructed
    /\ call \in BuilderCalls
    /\ ret = Null

BuildImageInfoCall ==
    /\ call[1] = "buildImageInfo"
    /\ ret = Null
    /\ ret' = Some(buildImageInfo(call[2], call[3]))
    /\ UNCHANGED <<cfg, handlerVars, bleVars, taskVars, nRecv, errorAt, call>>

IMBBuildCall ==
    /\ call[1] = "IMBHeaderBuilder.build"
    /\ ret = Null
    /\ \E out \in IMBHeaderBuild(call[2], call[3], call[4]) : ret' = Some(out)
    /\ UNCHANGED <<cfg, handlerVars, bleVars, taskVars, nRecv, errorAt, call>>

XV4BuildCall ==
    /\ call[1] = "XV4HeaderBuilder.build"
    /\ ret = Null
    /\ ret' = Some(XV4HeaderBuild(call[2], call[3], call[4], call[5]))
    /\ UNCHANGED <<cfg, handlerVars, bleVars, taskVars, nRecv, errorAt, call>>

BuildImageDataCall ==
    /\ call[1] = "buildImageData"
    /\ ret = Null
    /\ ret' = Some(buildImageData(call[2], call[3], call[4]))
    /\ UNCHANGED <<cfg, handlerVars, bleVars, taskVars, nRecv, errorAt, call>>

BuildAnimationDataCall ==
    /\ call[1] = "buildAnimationData"
    /\ ret = Null
    /\ ret' = Some(buildAnimationData(call[2], call[3], call[4]))
    /\ UNCHANGED <<cfg, handlerVars, bleVars, taskVars, nRecv, errorAt, call>>

BuilderNext ==
    \/ BuildImageInfoCall
    \/ IMBBuildCall
    \/ XV4BuildCall
    \/ BuildImageDataCall
    \/ BuildAnimationDataCall

BuilderSpec == BuilderInit /\ [][BuilderNext]_vars

\* ------------------------------------------------- disconnect() by the caller
\* the phases in which connect() is still in flight; every caller awaits
\* connect() before it calls anything else on the uploader
ConnectInFlight == {"scan", "connecting", "discover", "subscribe"}

\* disconnect() with the rejections of the three transport calls not caught
Disconnect_m(unsubscribed, torn, stopped) ==
    /\ pc \notin ConnectInFlight
    /\ disconnect
    /\ call' = <<"disconnect">>
    /\ ret' = Some(IF \/ (notifyCharacteristic /\ ~unsubscribed)
                       \/ (peripheral /\ ~torn)
                       \/ ~stopped
                    THEN "raised" ELSE "returned")
    /\ UNCHANGED <<cfg, handlerVars, peripheral, writeCharacteristic,
                   notifyCharacteristic, isInitialized, taskVars, nRecv,
                   errorAt>>

\* the caller calls disconnect(): unsubscribeAsync(), disconnectAsync() and
\* stopScanningAsync() each resolve or reject, every rejection is swallowed
\* by its .catch(() => {}), and the call returns
Disconnect(unsubscribed, torn, stopped) ==
    /\ pc \notin ConnectInFlight
    /\ disconnect
    /\ call' = <<"disconnect">>
    /\ ret' = Some("returned")
    /\ UNCHANGED <<cfg, handlerVars, peripheral, writeCharacteristic,
                   notifyCharacteristic, isInitialized, taskVars, nRecv,
                   errorAt>>

CloseNext ==
    \/ Next
    \/ \E u, d, s \in BOOLEAN : Disconnect(u, d, s)

\* the uploader with a caller that may disconnect at any time
CloseSpec == Init /\ [][CloseNext]_vars

\* ------------------------------------------- the framer called on its own
MaxPayloadLen == 2   \* longest payload handed to createPacket on its own

PacketPayloads == UNION {[1..n -> {0, 1, 255}] : n \in 0..MaxPayloadLen}
PacketCounts == {0, 1, 255, 256, 65535, 65536, 65537}
PacketSubtypes == {DYNAMIC_AMBIENCE, IMAGE, 12, DEVICE_STATUS}

\* the longest payload whose length the 16-bit PAYLOAD_LENGTH field holds
MaxPayloadField == 65535
LongPayloadCalls ==
    {<<"createPacket", [k \in 1..MaxPayloadField |-> 255], t, r, IMAGE>> :
        t, r \in {0, 65535}}

\* one byte more than the PAYLOAD_LENGTH field holds
OverlongPayloadCalls ==
    {<<"createPacket", [k \in 1..(MaxPayloadField + 1) |-> 0], 0, 0, IMAGE>>}

PacketCalls == {<<"createPacket", p, t, r, st>> :
                  p \in PacketPayloads, t \in PacketCounts,
                  r \in PacketCounts, st \in PacketSubtypes}
               \cup LongPayloadCalls \cup OverlongPayloadCalls

PacketInit ==
    /\ Constructed
    /\ call \in PacketCalls
    /\ ret = Null

CreatePacketCall ==
    /\ call # <<>>
    /\ call[1] = "createPacket"
    /\ ret = Null
    /\ ret' = Some(createPacket(call[2], call[3], call[4], call[5]))
    /\ UNCHANGED <<cfg, handlerVars, bleVars, taskVars, nRecv, errorAt, call>>

PacketNext == CreatePacketCall

PacketSpec == PacketInit /\ [][PacketNext]_vars

\* --------------------------------------- the storage check called on its own
MaxFreeKB == 56      \* largest freespace (KB) handed to the storage check

StoragePayloads == {1, 10, 54, 931, 1024, 10240, 51200}
StorageStatuses ==
    {Null} \cup {Some([type |-> DEVICE_STATUS, freespace |-> f])
                    : f \in 0..MaxFreeKB}

\* the handler holds no status, or the status of one notification handled
StorageInit ==
    /\ Constructed
    /\ call \in {<<"checkStorageCapacity", n>> : n \in StoragePayloads}
    /\ ret = Null

StorageStatus(st) ==
    /\ call # <<>>
    /\ call[1] = "checkStorageCapacity"
    /\ ret = Null
    /\ deviceStatus = Null
    /\ deviceStatus' = st
    /\ st # Null
    /\ deviceReady' = TRUE
    /\ deviceStatusReceived' = TRUE
    /\ lastNotification' = st
    /\ UNCHANGED <<cfg, waitingForAck, packetSuccessCount, errorFlag,
                   allNotifications, notificationResolve, statusResolve,
                   bleVars, taskVars, nRecv, errorAt, call, ret>>

CheckStorageCall ==
    /\ call # <<>>
    /\ call[1] = "checkStorageCapacity"
    /\ ret = Null
    /\ ret' = Some(checkStorageCapacity(call[2]))
    /\ UNCHANGED <<cfg, handlerVars, bleVars, taskVars, nRecv, errorAt, call>>

StorageNext ==
    \/ \E st \in StorageStatuses : StorageStatus(st)
    \/ CheckStorageCall

StorageSpec == StorageInit /\ [][StorageNext]_vars

\* ------------------------------ the streaming pass on a payload of any size
\* the upload of beambox-uploader.ts announces, composes the payload and hands
\* it to sendData() without looking at its size
BigJpegLen == 65482  \* a JPEG whose payload needs 65536 packets of one byte
MaxPassWrites == 4   \* frames the pass is followed for

Fill(n) == IF n <= 0 THEN <<>> ELSE [k \in 1..n |-> 255]
PassJpegs == {Fill(0), Fill(1), Fill(BigJpegLen)}
PassConfigs == [chunkSize : {1, 20}, maxPayloadSize : {2097152},
                maxPacketCount : {20000}, cmdSubtype : {IMAGE},
                verbose : {FALSE}]

\* connect() has returned true after its status wait timed out, upload() has
\* sent the info packet and is about to call sendData(fullData)
PassInit ==
    /\ cfg \in PassConfigs
    /\ waitingForAck = FALSE
    /\ packetSuccessCount = 0
    /\ errorFlag = FALSE
    /\ lastNotification = Null
    /\ deviceStatus = Null
    /\ deviceReady = FALSE
    /\ deviceStatusReceived = FALSE
    /\ allNotifications = <<>>
    /\ notificationResolve = FALSE
    /\ statusResolve = TRUE
    /\ peripheral = TRUE
    /\ writeCharacteristic = TRUE
    /\ notifyCharacteristic = TRUE
    /\ isInitialized = TRUE
    /\ listening = TRUE
    /\ pc = "infoSleep"
    /\ woken = FALSE
    /\ connected = "true"
    /\ kind = "image"
    /\ jpegData \in PassJpegs
    /\ frames = <<>>
    /\ fullData = buildImageData(jpegData, defaultSize, IMAGE)
    /\ i = 0
    /\ written = <<InfoPacket>>
    /\ progress = <<>>
    /\ result = "none"
    /\ nRecv = 0
    /\ errorAt = {}
    /\ call = <<>>
    /\ ret = Null

\* the pass is followed up to MaxPassWrites frames
PassNext ==
    \/ SendDataStart
    \/ ChunkWritten
    \/ ((i + 1 < totalChunks => Len(written) < MaxPassWrites) /\ ChunkSlept)
    \/ FinalizeEnd
    \/ \E data \in Notifs : Notify(data)

PassSpec == PassInit /\ [][PassNext]_vars

\* ------------------------------------------------------- reading the frames
FrameSubtype(f) == f[2]
FrameTotal(f) == f[3] * 256 + f[4]
FrameRemaining(f) == f[5] * 256 + f[6]
FrameLength(f) == f[7] * 256 + f[8]
FramePayload(f) == SubSeq(f, 9, Len(f) - 1)

InfoFrame == <<241, 6, 0, 0, 0, 0, 0, 21,
               123, 34, 116, 121, 112, 101, 34, 58, 54, 44,
               34, 110, 117, 109, 98, 101, 114, 34, 58, 49, 125, 34>>

\* the frames written after the first one
\* the framer's verify(frame): length >= 10, the payload length field
\* matches, and the sum over all bytes is 0 mod 256
InvalidFrame == <<"InvalidFrame">>
verify(frame) ==
    IF /\ Len(frame) >= 10
       /\ FrameLength(frame) = Len(frame) - 9
       /\ SumSeq(frame) % 256 = 0
    THEN <<FrameSubtype(frame), FrameTotal(frame), FrameRemaining(frame),
           FramePayload(frame)>>
    ELSE InvalidFrame

DataFrames == IF written = <<>> THEN <<>> ELSE Tail(written)

\* sendData ran through the whole loop
PassComplete == pc = "finalize" \/ (pc = "done" /\ result = "true")

\* ------------------------------------------------------------------- claims

\* C1 (as amended): the data frames written by one streaming pass all carry
\* the same total field, ceil(L / C) modulo 65536, and frame k (from 1) carries
\* remaining = (ceil(L / C) - k) modulo 65536; for ceil(L / C) <= 65535 these
\* are ceil(L / C) and total-1, total-2, ..., 0.  A pass never writes more
\* than ceil(L / C) frames and one that ran through has written exactly that
\* many, so no chunk is written twice or skipped.
C1_FrameSequence ==
    LET total == CeilDiv(Len(fullData), cfg.chunkSize) IN
    /\ \A k \in 1..Len(DataFrames) :
          /\ FrameTotal(DataFrames[k]) = total % 65536
          /\ FrameRemaining(DataFrames[k]) = (total - k) % 65536
          /\ total <= 65535 =>
                /\ FrameTotal(DataFrames[k]) = total
                /\ FrameRemaining(DataFrames[k]) = total - k
    /\ Len(DataFrames) <= total
    /\ PassComplete => Len(DataFrames) = total

C1_Witness ==
    /\ pc = "done" /\ result = "true"
    /\ Len(DataFrames) = 3
    /\ FrameTotal(DataFrames[1]) = 3
    /\ FrameRemaining(DataFrames[3]) = 0

\* C1 as stated: for every payload length L >= 1 and chunk size C >= 1 every
\* data frame carries total = ceil(L / C) and frame k carries total - k.
C1_EveryLength ==
    LET total == CeilDiv(Len(fullData), cfg.chunkSize) IN
    \A k \in 1..Len(DataFrames) :
        /\ FrameTotal(DataFrames[k]) = total
        /\ FrameRemaining(DataFrames[k]) = total - k

\* C2: the payloads of the data frames, concatenated in the order written,
\* are a prefix of the composed payload and the whole of it once the pass ran
\* through; every frame's payload has length C except the last of the pass,
\* which has length L - (total-1)*C and is not empty.
C2_Concatenation ==
    LET total == CeilDiv(Len(fullData), cfg.chunkSize)
        joined == Flatten([k \in 1..Len(DataFrames) |->
                              FramePayload(DataFrames[k])])
    IN
    /\ joined = SubSeq(fullData, 1, Len(joined))
    /\ PassComplete => joined = fullData
    /\ \A k \in 1..Len(DataFrames) :
          LET n == Len(FramePayload(DataFrames[k])) IN
          /\ n >= 1
          /\ n = IF k < total THEN cfg.chunkSize
                 ELSE Len(fullData) - (total - 1) * cfg.chunkSize

C2_Witness ==
    /\ PassComplete
    /\ Len(DataFrames) = 2
    /\ Len(FramePayload(DataFrames[2])) < cfg.chunkSize

\* C3: the bytes of every frame createPacket returns, the checksum byte
\* included, sum to 0 modulo 256.
C3_Checksum ==
    ret # Null => SumSeq(ret[1]) % 256 = 0

C3_Witness ==
    /\ ret # Null
    /\ call[2] = <<>>
    /\ call[3] = 65537

\* C4 (as amended): an upload (still image or animation) that gets past the
\* limit validation, the storage check and the connection check writes
\* exactly one info frame (subtype IMAGE, total 0, remaining 0, payload
\* {"type":6,"number":1}), and writes it before the first data frame; an
\* upload rejected by one of the three writes nothing; no data frame is ever
\* written without the info frame before it.
C4_InfoFrameFirst ==
    /\ written # <<>> =>
          /\ written[1] = InfoFrame
          /\ FrameSubtype(written[1]) = IMAGE
          /\ FrameTotal(written[1]) = 0
          /\ FrameRemaining(written[1]) = 0
          /\ FramePayload(written[1]) = SubSeq(InfoFrame, 9, 29)
    /\ \A k \in 2..Len(written) :
          written[k] # InfoFrame /\ FrameTotal(written[k]) >= 1
    /\ pc \in {"infoWrite", "infoSleep"} => Len(written) = 1
    /\ (pc \in {"dataWrite", "chunkSleep", "finalize"}
        \/ (pc = "done" /\ result \in {"true", "false"})) =>
          Len(written) >= 2
    /\ (pc = "done" /\ result \in {"UploadError", "ConnectionError"}) =>
          written = <<>>

C4_Witness ==
    /\ kind = "animation"
    /\ pc = "done" /\ result = "true"
    /\ Len(written) >= 2
    /\ written[1] = InfoFrame

\* C4 as stated: every upload that has ended has written exactly one info
\* frame.  Asked here only of uploads on a connected device that has reported
\* its status.
C4_EveryUpload ==
    (pc = "done" /\ connected = "true" /\ deviceStatusReceived) =>
        /\ written # <<>>
        /\ written[1] = InfoFrame
        /\ \A k \in 2..Len(written) : written[k] # InfoFrame

\* C5: when the task resumes after writing a chunk and errorFlag is set, the
\* upload ends there with failure: the step writes nothing, does not call the
\* progress callback, and returns false; nothing is written after the upload
\* has returned.
C5_AbortOnError ==
    [][ /\ (pc = "dataWrite" /\ errorFlag /\ pc' # pc) =>
              /\ pc' = "done"
              /\ result' = "false"
              /\ progress' = progress
              /\ written' = written
        /\ pc = "done" => (written' = written /\ progress' = progress) ]_vars

C5_Witness ==
    /\ pc = "done" /\ result = "false"
    /\ Len(DataFrames) = 2
    /\ Len(DataFrames) < totalChunks
    /\ Len(progress) = 1

\* C6: if the error sentinel is handled between the first data frame and the
\* end of the finalize wait, the upload does not return success.
C6_ErrorMeansFailure ==
    (pc = "done" /\ errorAt \cap {"streaming", "finalize"} # {})
        => result # "true"

\* C7: once the first data frame is written the upload returns, whether or
\* not the device delivers anything; if no error sentinel was ever handled it
\* has then written all ceil(L / C) data frames and returns success.
C7_Terminates ==
    /\ (pc = "dataWrite") ~> (pc = "done")
    /\ [](pc = "done" /\ DataFrames # <<>> /\ errorAt = {} =>
             /\ result = "true"
             /\ Len(DataFrames) = CeilDiv(Len(fullData), cfg.chunkSize))

C7_Witness ==
    /\ pc = "done" /\ result = "true"
    /\ nRecv = 1
    /\ deviceStatusReceived
    /\ Len(DataFrames) = 3

\* C8: every notification with non-empty text that is handled during the
\* finalize wait ends the wait.
C8_AnyNotificationEndsWait ==
    [][ \A data \in Notifs :
          (pc = "finalize" /\ parse(data).rawText # <<>> /\ Notify(data))
              => woken' ]_vars

\* C9: once a device-status notification has been handled, no later
\* notification changes deviceStatus or deviceReady.
C9_StatusWrittenOnce ==
    [][ deviceStatusReceived =>
           (deviceStatus' = deviceStatus /\ deviceReady' = deviceReady) ]_vars

\* C10: an upload whose composed payload is larger than maxPayloadSize, or
\* needs more than maxPacketCount packets, ends with an error and has written
\* nothing.
OverLimit ==
    \/ Len(fullData) > cfg.maxPayloadSize
    \/ CeilDiv(Len(fullData), cfg.chunkSize) > cfg.maxPacketCount

C10_LimitsRejected ==
    (fullData # <<>> /\ OverLimit) =>
        /\ pc = "done"
        /\ result = "UploadError"
        /\ written = <<>>

C10_Witness ==
    /\ pc = "done" /\ result = "UploadError"
    /\ Len(fullData) <= cfg.maxPayloadSize
    /\ CeilDiv(Len(fullData), cfg.chunkSize) > cfg.maxPacketCount
    /\ deviceStatus # Null
    /\ deviceStatus[1].freespace * 1024 >= 2 * Len(fullData)
    /\ writeCharacteristic

\* C11: with a device-status record available, the storage check lets the
\* upload through exactly when freespace * 1024 >= payload size * 1.10.
C11_StorageMargin ==
    (ret # Null /\ deviceStatus # Null) =>
        (ret[1] = (deviceStatus[1].freespace * 1024 * 10 >= call[2] * 11))

\* C12: an upload on an uploader whose connect returned true without any
\* device status handled, and whose payload is within the limits, is not
\* rejected for storage.
C12_NoStatusNoStorageCheck ==
    (/\ pc = "done"
     /\ connected = "true"
     /\ deviceStatus = Null
     /\ writeCharacteristic
     /\ fullData # <<>>
     /\ ~OverLimit) => result # "UploadError"

C14_Progress ==
    /\ \A k \in 1..Len(progress) :
          /\ 0 <= progress[k][1]
          /\ progress[k][2] > 0
          /\ progress[k][1] <= 100 * progress[k][2]
    /\ \A k \in 1..(Len(progress) - 1) :
          progress[k][1] * progress[k + 1][2]
              <= progress[k + 1][1] * progress[k][2]
    /\ Len(progress) <= Len(DataFrames)
    /\ Len(DataFrames) <= Len(progress) + 1
    /\ pc = "dataWrite" => Len(progress) = Len(DataFrames) - 1
    /\ PassComplete \/ pc = "chunkSleep" => Len(progress) = Len(DataFrames)
    /\ (pc = "done" /\ result = "true") =>
          /\ progress # <<>>
          /\ progress[Len(progress)][1] = 100 * progress[Len(progress)][2]

C14_Witness ==
    /\ pc = "done" /\ result = "true"
    /\ Len(progress) = 3
    /\ progress[1][1] * 3 = 100 * progress[1][2]
    /\ progress[3][1] = 100 * progress[3][2]


C17_ConnectSucceedsEitherWay ==
    /\ [](pc = "awaitStatus" =>
            /\ woken <=> deviceStatusReceived
            /\ deviceReady <=> deviceStatusReceived
            /\ ENABLED StatusWaitEnd)
    /\ [][StatusWaitEnd =>
            /\ connected' = "true"
            /\ deviceReady' = deviceReady]_vars

\* connect() has returned true although the only notification of the
\* status wait was not a device status
C17_Witness ==
    /\ pc = "ready"
    /\ connected = "true"
    /\ nRecv = 1
    /\ ~deviceReady
    /\ deviceStatus = Null

\* C18: when connect() fails, what it hands back to its caller tells the
\* kind of failure: the value returned after one kind of failure (adapter
\* not powered, device not found, transport connect failed, characteristic
\* missing) is never the value returned after another kind.
C18_FailureKindSurfaced ==
    [][(connected = "none" /\ connected' \notin {"none", "true"}) =>
          \A other \in FailurePhases \ {pc} :
             connected' # connectOutcome(ThrownAt(other))]_vars

\* the calls the round trip is stated for: a subtype of the protocol, both
\* counters and the payload length within 16 bits
InFramerRange ==
    /\ call[5] \in {DYNAMIC_AMBIENCE, IMAGE, DEVICE_STATUS}
    /\ call[3] \in 0..65535
    /\ call[4] \in 0..65535
    /\ Len(call[2]) \in 0..MaxPayloadField

\* C19 as stated: verify gives back the subtype, the counters and the
\* payload of every frame createPacket builds from values in range, the
\* empty payload included.
C19_RoundTrip ==
    (ret # Null /\ InFramerRange) =>
        verify(ret[1]) = <<call[5], call[3], call[4], call[2]>>

\* C19, amended: verify gives back the subtype, the counters and the
\* payload of every frame createPacket builds from values in range and a
\* payload of at least one byte; the 9-byte frame of an empty payload is
\* well formed but verify rejects it for its length.
C19_RoundTripNonEmpty ==
    /\ (ret # Null /\ InFramerRange /\ Len(call[2]) >= 1) =>
           verify(ret[1]) = <<call[5], call[3], call[4], call[2]>>
    /\ (ret # Null /\ InFramerRange /\ Len(call[2]) = 0) =>
           /\ verify(ret[1]) = InvalidFrame
           /\ Len(ret[1]) = 9
           /\ FrameLength(ret[1]) = 0
           /\ SumSeq(ret[1]) % 256 = 0

\* a device-status frame with a two-byte payload and both counters at their
\* largest has been built and read back
C19_Witness ==
    /\ ret # Null
    /\ call[2] = <<255, 1>>
    /\ call[3] = 65535
    /\ call[4] = 65535
    /\ verify(ret[1]) = <<DEVICE_STATUS, 65535, 65535, <<255, 1>>>>

\* C20: createPacket returns 8 + L + 1 bytes: 0xF1, the subtype, total
\* mod 65536 and remaining mod 65536 big-endian, L big-endian, then the
\* payload unchanged from offset 8; counters above 65535 are truncated, not
\* rejected, and an empty payload gives 9 bytes.
C20_FrameLayout ==
    ret # Null =>
        LET f == ret[1]
            L == Len(call[2])
        IN  /\ Len(f) = 8 + L + 1
            /\ f[1] = 241
            /\ f[2] = call[5]
            /\ f[3] * 256 + f[4] = call[3] % 65536
            /\ f[5] * 256 + f[6] = call[4] % 65536
            /\ f[7] * 256 + f[8] = L
            /\ \A k \in 3..8 : f[k] \in 0..255
            /\ SubSeq(f, 9, 8 + L) = call[2]
            /\ L = 0 => Len(f) = 9

\* C20, amended: as C20, except that bytes 6-7 hold L mod 65536: the
\* length of a payload longer than 65535 bytes is truncated like the
\* counters, while the frame still has 8 + L + 1 bytes and carries the
\* whole payload.
C20_FrameLayoutTruncated ==
    ret # Null =>
        LET f == ret[1]
            L == Len(call[2])
        IN  /\ Len(f) = 8 + L + 1
            /\ f[1] = 241
            /\ f[2] = call[5]
            /\ f[3] * 256 + f[4] = call[3] % 65536
            /\ f[5] * 256 + f[6] = call[4] % 65536
            /\ f[7] * 256 + f[8] = L % 65536
            /\ \A k \in 3..8 : f[k] \in 0..255
            /\ SubSeq(f, 9, 8 + L) = call[2]
            /\ L = 0 => Len(f) = 9

\* an empty payload framed with a total of 65536 and 65537 remaining: both
\* counters wrapped, to 0 and to 1
C20_Witness ==
    /\ ret # Null
    /\ call[2] = <<>>
    /\ call[3] = 65536
    /\ call[4] = 65537
    /\ Len(ret[1]) = 9
    /\ SubSeq(ret[1], 3, 6) = <<0, 0, 0, 1>>

\* the value of a run of ASCII decimal digits
RECURSIVE DigitsValue(_)
DigitsValue(ds) ==
    IF ds = <<>> THEN 0
    ELSE 10 * DigitsValue(SubSeq(ds, 1, Len(ds) - 1)) + (ds[Len(ds)] - 48)

\* a run of ASCII digits that is the JSON number n: digits only, no leading
\* zero, value n
IsJsonNumber(ds, n) ==
    /\ Len(ds) >= 1
    /\ \A k \in 1..Len(ds) : ds[k] \in 48..57
    /\ (Len(ds) > 1 => ds[1] # 48)
    /\ DigitsValue(ds) = n

\* C21: buildImageInfo(subtype, count) is the text {"type":<subtype>,
\* "number":<count>} byte for byte: the key type first, then number, the two
\* values as JSON numbers and not one byte of whitespace.  For (6, 1) it is
\* the 21-byte literal, and its frame with total 0 and remaining 0 has 30
\* bytes and begins F1 06 00 00 00 00 00 15.
C21_ImageInfoLiteral ==
    (ret # Null /\ call[1] = "buildImageInfo") =>
        LET b == ret[1]
            \* the comma that ends the first value
            c == CHOOSE k \in 9..Len(b) : b[k] = 44
        IN  /\ SubSeq(b, 1, 8) = <<123, 34, 116, 121, 112, 101, 34, 58>>
            /\ \E k \in 9..Len(b) : b[k] = 44
            /\ IsJsonNumber(SubSeq(b, 9, c - 1), call[2])
            /\ SubSeq(b, c, c + 9)
                  = <<44, 34, 110, 117, 109, 98, 101, 114, 34, 58>>
            /\ IsJsonNumber(SubSeq(b, c + 10, Len(b) - 1), call[3])
            /\ b[Len(b)] = 125
            /\ \A k \in 1..Len(b) : b[k] \notin {9, 10, 13, 32}
            /\ (call[2] = 6 /\ call[3] = 1) =>
                  /\ b = <<123, 34, 116, 121, 112, 101, 34, 58, 54, 44, 34,
                           110, 117, 109, 98, 101, 114, 34, 58, 49, 125>>
                  /\ Len(b) = 21
                  /\ Len(createPacket(b, 0, 0, IMAGE)) = 30
                  /\ SubSeq(createPacket(b, 0, 0, IMAGE), 1, 8)
                        = <<241, 6, 0, 0, 0, 0, 0, 21>>

\* the info payload of one still image has been built
C21_Witness ==
    /\ call = <<"buildImageInfo", IMAGE, 1>>
    /\ ret # Null
    /\ Len(ret[1]) = 21

\* what C22 asks of the header returned for (j, w, h)
IMBHeaderAsClaimed(header, j, w, h) ==
    /\ header # RangeError
    /\ Len(header) = 36
    /\ IMBValidate(header)
    /\ ReadUInt32LE(header, 8) = WideAdd(j, 36)
    /\ ReadUInt32LE(header, 24) = j
    /\ ReadUInt16LE(header, 16) = w
    /\ ReadUInt16LE(header, 18) = h
    /\ ReadUInt32LE(header, 4) = <<0, 36>>
    /\ ReadUInt32LE(header, 20) = <<0, 36>>
    /\ header[13] = 11
    /\ header[4] = 0
    /\ \A k \in {14, 15, 16} \cup 29..36 : header[k] = 0

\* C22 as stated: for every j >= 0 and 0 < w, h <= 65535 build returns 36
\* bytes that pass validate and hold j + 36, j, w, h, 36 twice, the format
\* tag 11 and zeros in the reserved bytes.
C22_IMBHeader ==
    (/\ ret # Null /\ call[1] = "IMBHeaderBuilder.build"
     /\ call[3] \in 1..65535 /\ call[4] \in 1..65535) =>
        IMBHeaderAsClaimed(ret[1], call[2], call[3], call[4])

\* C22, amended: the same for every j with j + 36 <= 2^32 - 1; for a larger
\* j no header with j + 36 at offset 8 is returned.
C22_IMBHeaderInRange ==
    (/\ ret # Null /\ call[1] = "IMBHeaderBuilder.build"
     /\ call[3] \in 1..65535 /\ call[4] \in 1..65535) =>
        IF InUInt32(WideAdd(call[2], 36))
        THEN IMBHeaderAsClaimed(ret[1], call[2], call[3], call[4])
        ELSE \/ ret[1] = RangeError
             \/ ReadUInt32LE(ret[1], 8) # WideAdd(call[2], 36)

\* the header of the largest JPEG size that fits, at the largest dimensions
C22_Witness ==
    /\ call = <<"IMBHeaderBuilder.build", <<65535, 65499>>, 65535, 65535>>
    /\ ret # Null
    /\ SubSeq(ret[1], 9, 12) = <<255, 255, 255, 255>>
    /\ IMBValidate(ret[1])

\* the JPEG lengths of the frames of an xV4 build call, and where the claims
\* place the metadata block of frame i (counted from 0): after the header,
\* the frame table, and the blocks and JPEGs of the frames before it
XV4JpegLens == [k \in 1..Len(call[2]) |-> Len(call[2][k].data)]
XV4BlockAt(idx) ==
    32 + 16 * Len(call[2]) + 32 * idx + SumSeq(SubSeq(XV4JpegLens, 1, idx))
XV4Built ==
    /\ ret # Null
    /\ call[1] = "XV4HeaderBuilder.build"
    /\ Len(call[2]) >= 1

\* C23: the xV4 container of N >= 1 frames with JPEG lengths j_0..j_(N-1)
\* has 32 + 16 N + sum(32 + j_i) bytes; its header holds 32 + 16 N - 8 at
\* offset 4, N at 8, 10 N + 10 at 12 and sum(32 + j_i) at 28; the block of
\* frame i starts where the blocks and JPEGs before it end, that offset is
\* in table entry i and in the block's first field, the JPEG-start field is
\* the offset + 32, the size field j_i, the unknown field max(0, N - 3),
\* and the JPEG follows the block unchanged.
C23_XV4Layout ==
    XV4Built =>
        LET c == ret[1]
            N == Len(call[2])
            dataSize == 32 * N + SumSeq(XV4JpegLens)
        IN  /\ Len(c) = 32 + 16 * N + dataSize
            /\ ReadUInt32LE(c, 4) = WideOf(32 + 16 * N - 8)
            /\ ReadUInt32LE(c, 8) = WideOf(N)
            /\ ReadUInt32LE(c, 12) = WideOf(10 * N + 10)
            /\ ReadUInt32LE(c, 28) = WideOf(dataSize)
            /\ \A idx \in 0..(N - 1) :
                  LET at == XV4BlockAt(idx)
                      j == XV4JpegLens[idx + 1]
                  IN  /\ ReadUInt32LE(c, 32 + 16 * idx + 12) = WideOf(at)
                      /\ ReadUInt32LE(c, at) = WideOf(at)
                      /\ ReadUInt32LE(c, at + 8)
                            = WideOf(IF N > 3 THEN N - 3 ELSE 0)
                      /\ ReadUInt32LE(c, at + 16) = WideOf(at + 32)
                      /\ ReadUInt32LE(c, at + 20) = WideOf(j)
                      /\ SubSeq(c, at + 33, at + 32 + j) = call[2][idx + 1].data

\* a container of four frames of different lengths, the third one empty
C23_Witness ==
    /\ XV4Built
    /\ XV4JpegLens = <<1, 2, 0, 2>>
    /\ Len(ret[1]) = 32 + 64 + 128 + 5
    /\ ReadUInt32LE(ret[1], XV4BlockAt(3) + 8) = <<0, 1>>

\* the block reached from the block at offset `at` by its next pointer
\* (the pointers of these containers fit the low 16 bits)
XV4NextOf(at) == ReadUInt32LE(ret[1], at + 4)[2]
\* the block reached from frame 0 after n hops
RECURSIVE XV4Hop(_)
XV4Hop(n) == IF n = 0 THEN XV4BlockAt(0) ELSE XV4NextOf(XV4Hop(n - 1))

\* C24: the next pointers of an xV4 container form one cycle: the pointer
\* of frame i is the block offset of frame (i + 1) mod N, so the last frame
\* points to the first and a single frame to itself; none is zero; and N
\* hops from frame 0 pass every frame once and end at frame 0.
C24_NextPointerCycle ==
    XV4Built =>
        LET c == ret[1]
            N == Len(call[2])
        IN  /\ \A idx \in 0..(N - 1) :
                  /\ ReadUInt32LE(c, XV4BlockAt(idx) + 4)
                        = WideOf(XV4BlockAt((idx + 1) % N))
                  /\ ReadUInt32LE(c, XV4BlockAt(idx) + 4) # <<0, 0>>
            /\ {XV4Hop(n) : n \in 0..(N - 1)}
                  = {XV4BlockAt(idx) : idx \in 0..(N - 1)}
            /\ Cardinality({XV4Hop(n) : n \in 0..(N - 1)}) = N
            /\ XV4Hop(N) = XV4BlockAt(0)

\* a container of three frames whose last block points back to the first
C24_Witness ==
    /\ XV4Built
    /\ Len(call[2]) = 3
    /\ XV4JpegLens = <<2, 0, 1>>
    /\ ReadUInt32LE(ret[1], XV4BlockAt(2) + 4) = <<0, 80>>
    /\ XV4Hop(3) = 80

\* C25: whatever integer interval r is asked for, the 12 bytes at offset 16
\* of the xV4 header are the text output/NNms and a zero byte, where NN is
\* min(99, max(50, r)) written with two digits; the field therefore ends
\* with a zero byte inside its 12 bytes.
C25_TimingField ==
    XV4Built =>
        LET field == SubSeq(ret[1], 17, 28)
            r == call[3]
            NN == IF r < 50 THEN 50 ELSE IF r > 99 THEN 99 ELSE r
        IN  /\ SubSeq(field, 1, 7) = <<111, 117, 116, 112, 117, 116, 47>>
            /\ IsJsonNumber(SubSeq(field, 8, 9), NN)
            /\ SubSeq(field, 10, 11) = <<109, 115>>
            /\ field[12] = 0
            /\ \E k \in 1..12 : field[k] = 0

\* a container built for an interval of 1000 ms: the field reads output/99ms
C25_Witness ==
    /\ XV4Built
    /\ call[3] = 1000
    /\ SubSeq(ret[1], 17, 28)
          = <<111, 117, 116, 112, 117, 116, 47, 57, 57, 109, 115, 0>>

\* C26: built from an empty frame list, the xV4 container and the animation
\* payload are an error and no bytes; from any other list they are bytes.
C26_EmptyAnimationFails ==
    (ret # Null /\ call[1] \in {"XV4HeaderBuilder.build", "buildAnimationData"})
        => IF Len(call[2]) = 0
           THEN ret[1] = NoFramesError
           ELSE /\ ret[1] # NoFramesError
                /\ Len(ret[1]) >= 32 + 16 + 32
                /\ \A k \in 1..Len(ret[1]) : ret[1][k] \in 0..255

\* an animation payload was asked for with no frames and the call threw
C26_Witness ==
    /\ call[1] = "buildAnimationData"
    /\ call[2] = <<>>
    /\ ret = Some(NoFramesError)

\* C27: the data payload is prefix, body and '}' joined byte for byte.
\* buildImageData(jpeg, (w, h), t) is {"type":<t>,"data": then the 36-byte
\* IMB header of (len(jpeg), w, h), then the JPEG unchanged, then '}', and
\* has len(prefix) + 36 + len(jpeg) + 1 bytes; buildAnimationData is
\* {"type":5,"data": then the xV4 container unchanged, then '}'.
C27_RawConcatenation ==
    /\ (ret # Null /\ call[1] = "buildImageData") =>
          LET b == ret[1]
              jpeg == call[2]
              \* the comma that ends the type value
              c == CHOOSE k \in 9..Len(b) : b[k] = 44
              header == SubSeq(b, c + 8, c + 43)
          IN  /\ SubSeq(b, 1, 8) = <<123, 34, 116, 121, 112, 101, 34, 58>>
              /\ IsJsonNumber(SubSeq(b, 9, c - 1), call[4])
              /\ SubSeq(b, c, c + 7) = <<44, 34, 100, 97, 116, 97, 34, 58>>
              /\ IMBValidate(header)
              /\ ReadUInt32LE(header, 8) = WideOf(Len(jpeg) + 36)
              /\ ReadUInt32LE(header, 24) = WideOf(Len(jpeg))
              /\ ReadUInt16LE(header, 16) = call[3][1]
              /\ ReadUInt16LE(header, 18) = call[3][2]
              /\ header \in IMBHeaderBuild(WideOf(Len(jpeg)), call[3][1],
                                           call[3][2])
              /\ SubSeq(b, c + 44, c + 43 + Len(jpeg)) = jpeg
              /\ b[Len(b)] = 125
              /\ Len(b) = (c + 7) + 36 + Len(jpeg) + 1
    /\ (ret # Null /\ call[1] = "buildAnimationData" /\ Len(call[2]) >= 1) =>
          LET b == ret[1]
              container == XV4HeaderBuild(call[2], call[3], call[4][1],
                                          call[4][2])
          IN  /\ SubSeq(b, 1, 17)
                    = <<123, 34, 116, 121, 112, 101, 34, 58, 53,
                        44, 34, 100, 97, 116, 97, 34, 58>>
              /\ SubSeq(b, 18, Len(b) - 1) = container
              /\ b[Len(b)] = 125
              /\ Len(b) = 17 + Len(container) + 1

\* an image payload around a JPEG holding a brace, a NUL and a newline
C27_Witness ==
    /\ call[1] = "buildImageData"
    /\ call[2] = <<125, 0, 10>>
    /\ call[4] = IMAGE
    /\ ret # Null
    /\ Len(ret[1]) = 17 + 36 + 3 + 1
    /\ SubSeq(ret[1], 54, 57) = <<125, 0, 10, 125>>

\* ------------------------------------------- ResponseParser on the bytes
\* The parser once more, on the bytes of a notification rather than on
\* tokens: text is a sequence of UTF-16 code units, a Buffer a sequence of
\* bytes.

\* the text of a ResponseStatus value
ResponseStatusText(status) ==
    \* GetPacketSuccess
    CASE status = SUCCESS ->
          <<71, 101, 116, 80, 97, 99, 107, 101, 116, 83, 117, 99, 99, 101,
            115, 115>>
    \* PacketFail
      [] status = FAIL ->
          <<80, 97, 99, 107, 101, 116, 70, 97, 105, 108>>
    \* 1111111111
      [] status = ERROR ->
          <<49, 49, 49, 49, 49, 49, 49, 49, 49, 49>>

\* Buffer.toString("utf-8"): one- and two-byte sequences are decoded, any
\* other byte becomes U+FFFD (the inputs hold no lead byte of a three- or
\* four-byte sequence).  A continuation byte right after a two-byte lead is
\* taken up by the lead; every other byte gives one code unit.
Utf8ToString(data) ==
    LET isLead(k) == data[k] \in 194..223
        isContinuation(k) == data[k] \in 128..191
        takenUp(k) == k > 1 /\ isLead(k - 1) /\ isContinuation(k)
        unit(k) ==
            IF takenUp(k) THEN -1
            ELSE IF data[k] < 128 THEN data[k]
            ELSE IF isLead(k) /\ k < Len(data) /\ isContinuation(k + 1)
                 THEN (data[k] - 192) * 64 + (data[k + 1] - 128)
                 ELSE 65533
    IN  SelectSeq([k \in 1..Len(data) |-> unit(k)], LAMBDA u : u # -1)

\* String.replace(/c/g, ""): every code unit c is dropped
ReplaceAll(text, c) == SelectSeq(text, LAMBDA u : u # c)

\* String.trim(): the white space and line terminators are stripped from
\* both ends
Trim(text) ==
    LET whiteSpace == {9, 10, 11, 12, 13, 32, 160, 5760, 8232, 8233, 8239,
                       8287, 12288, 65279} \cup 8192..8202
        blank(k) == text[k] \in whiteSpace
        at == 1..Len(text)
    IN  IF \A k \in at : blank(k) THEN <<>>
        ELSE SubSeq(text,
                    CHOOSE k \in at : ~blank(k) /\ \A m \in 1..(k - 1) : blank(m),
                    CHOOSE k \in at : ~blank(k)
                                      /\ \A m \in (k + 1)..Len(text) : blank(m))

\* data.toString("utf-8").replace(/\x00/g, "").replace(/\xd1/g, "").trim()
RawText(data) ==
    Trim(ReplaceAll(ReplaceAll(Utf8ToString(data), 0), 209))

\* String.includes
StringIncludes(text, pattern) ==
    \E k \in 0..(Len(text) - Len(pattern)) :
        /\ text[k + 1] = pattern[1]
        /\ SubSeq(text, k + 1, k + Len(pattern)) = pattern

\* the status with FAIL looked for before SUCCESS
StatusOf_m(rawText) ==
    IF StringIncludes(rawText, ResponseStatusText(FAIL)) THEN FAIL
    ELSE IF StringIncludes(rawText, ResponseStatusText(SUCCESS)) THEN SUCCESS
    ELSE IF StringIncludes(rawText, ResponseStatusText(ERROR)) THEN ERROR
    ELSE "none"

\* parse(): the status of the cleaned text
StatusOf(rawText) ==
    IF StringIncludes(rawText, ResponseStatusText(SUCCESS)) THEN SUCCESS
    ELSE IF StringIncludes(rawText, ResponseStatusText(FAIL)) THEN FAIL
    ELSE IF StringIncludes(rawText, ResponseStatusText(ERROR)) THEN ERROR
    ELSE "none"

\* the text of a literal name of JavaScript, and what String() gives for
\* an object
LiteralText(name) ==
    \* true
    CASE name = "true" ->
          <<116, 114, 117, 101>>
    \* false
      [] name = "false" ->
          <<102, 97, 108, 115, 101>>
    \* null
      [] name = "null" ->
          <<110, 117, 108, 108>>
    \* [object Object]
      [] name = "object" ->
          <<91, 111, 98, 106, 101, 99, 116, 32, 79, 98, 106, 101, 99, 116,
            93>>

\* JSON.parse, for the grammar of the texts the inputs hold: objects,
\* strings without escapes, integers, true, false and null.  A JavaScript
\* value is a record: [k |-> "null"], [k |-> "undefined"] (what reading a
\* missing property gives), [k |-> "bool", b], [k |-> "num", neg, digits]
\* (sign and decimal digits), [k |-> "str", s], [k |-> "obj", m] (the
\* members <<name, value>> in order of appearance).  The outcome is a
\* SyntaxError (ok is FALSE) or the value v.
JSONParse(text) ==
    LET noParse == [ok |-> FALSE, v |-> [k |-> "undefined"], next |-> 0]
        parsed(v, next) == [ok |-> TRUE, v |-> v, next |-> next]
        at(p) == IF p >= 1 /\ p <= Len(text) THEN text[p] ELSE -1
        startsWith(p, word) ==
            /\ p + Len(word) - 1 <= Len(text)
            /\ SubSeq(text, p, p + Len(word) - 1) = word
        RECURSIVE skipWs(_)
        skipWs(p) == IF at(p) \in {9, 10, 13, 32} THEN skipWs(p + 1) ELSE p
        parseString(p) ==
            LET closes == {j \in (p + 1)..Len(text) : text[j] = 34}
                j == CHOOSE c \in closes : \A m \in closes : c <= m
                body == SubSeq(text, p + 1, j - 1)
            IN  IF closes = {} THEN noParse
                ELSE IF \E n \in 1..Len(body) : body[n] < 32 \/ body[n] = 92
                THEN noParse
                ELSE parsed([k |-> "str", s |-> body], j + 1)
        parseNumber(p) ==
            LET neg == at(p) = 45
                s == IF neg THEN p + 1 ELSE p
                stops == {j \in s..(Len(text) + 1) : at(j) \notin 48..57}
                e == CHOOSE j \in stops : \A m \in stops : j <= m
            IN  IF e = s THEN noParse
                ELSE IF text[s] = 48
                THEN parsed([k |-> "num", neg |-> neg, digits |-> <<48>>],
                            s + 1)
                ELSE parsed([k |-> "num", neg |-> neg,
                             digits |-> SubSeq(text, s, e - 1)], e)
        parseLiteral(p) ==
            IF startsWith(p, LiteralText("true"))
            THEN parsed([k |-> "bool", b |-> TRUE], p + 4)
            ELSE IF startsWith(p, LiteralText("false"))
            THEN parsed([k |-> "bool", b |-> FALSE], p + 5)
            ELSE IF startsWith(p, LiteralText("null"))
            THEN parsed([k |-> "null"], p + 4)
            ELSE noParse
        RECURSIVE parseValue(_)
        RECURSIVE parseMembers(_, _)
        parseMembers(from, members) ==
            LET p == skipWs(from)
                key == parseString(p)
                colon == skipWs(key.next)
                val == parseValue(colon + 1)
                e == skipWs(val.next)
                more == Append(members, <<key.v.s, val.v>>)
            IN  IF at(p) # 34 \/ ~key.ok THEN noParse
                ELSE IF at(colon) # 58 THEN noParse
                ELSE IF ~val.ok THEN noParse
                ELSE IF at(e) = 44 THEN parseMembers(e + 1, more)
                ELSE IF at(e) = 125
                THEN parsed([k |-> "obj", m |-> more], e + 1)
                ELSE noParse
        parseValue(from) ==
            LET p == skipWs(from)
                c == at(p)
                j == skipWs(p + 1)
            IN  IF c = 123
                THEN IF at(j) = 125
                     THEN parsed([k |-> "obj", m |-> <<>>], j + 1)
                     ELSE parseMembers(j, <<>>)
                ELSE IF c = 34 THEN parseString(p)
                ELSE IF c = 45 \/ c \in 48..57 THEN parseNumber(p)
                ELSE parseLiteral(p)
        whole == parseValue(1)
    IN  IF whole.ok /\ skipWs(whole.next) = Len(text) + 1 THEN whole
        ELSE noParse

\* extractJson(): JSON.parse of the whole text, else of the part from the
\* first "{" to the last "}", else null
extractJsonText(text) ==
    LET whole == JSONParse(text)
        at == 1..Len(text)
        \* text.indexOf("{") and text.lastIndexOf("}"), counted from 0
        start == IF \A k \in at : text[k] # 123 THEN -1
                 ELSE (CHOOSE k \in at : text[k] = 123
                          /\ \A m \in 1..(k - 1) : text[m] # 123) - 1
        end == IF \A k \in at : text[k] # 125 THEN -1
               ELSE (CHOOSE k \in at : text[k] = 125
                        /\ \A m \in (k + 1)..Len(text) : text[m] # 125) - 1
        \* JSON.parse(text.substring(start, end + 1))
        part == JSONParse(SubSeq(text, start + 1, end + 1))
    IN  IF whole.ok THEN whole.v
        ELSE IF start # -1 /\ end # -1 /\ end > start /\ part.ok THEN part.v
        ELSE [k |-> "null"]

\* reading a property: the last member of that name, undefined if there is
\* none or the value is no object
Get(value, key) ==
    LET hits == IF value.k = "obj"
                THEN {n \in 1..Len(value.m) : value.m[n][1] = key}
                ELSE {}
    IN  IF hits = {} THEN [k |-> "undefined"]
        ELSE value.m[CHOOSE n \in hits : \A m \in hits : n >= m][2]

\* JavaScript truthiness
Truthy(value) ==
    CASE value.k = "null" -> FALSE
      [] value.k = "undefined" -> FALSE
      [] value.k = "bool" -> value.b
      [] value.k = "num" -> value.digits # <<48>>
      [] value.k = "str" -> value.s # <<>>
      [] value.k = "obj" -> TRUE

\* Number(x) || 0.  Number of a string trims it; the empty string is 0, a
\* signed run of digits its value, any other text NaN (the inputs hold no
\* hexadecimal, fractional or exponent forms); null is 0, true 1, false 0,
\* undefined and an object NaN; NaN || 0 is 0
NumberOrZero(value) ==
    LET RECURSIVE digitsToNumber(_)
        digitsToNumber(digits) ==
            IF digits = <<>> THEN 0
            ELSE 10 * digitsToNumber(SubSeq(digits, 1, Len(digits) - 1))
                 + (digits[Len(digits)] - 48)
        signedNumber(neg, digits) ==
            IF neg THEN 0 - digitsToNumber(digits) ELSE digitsToNumber(digits)
        t == Trim(value.s)
        signed == t # <<>> /\ t[1] \in {43, 45}
        digits == IF signed THEN Tail(t) ELSE t
    IN  CASE value.k = "null" -> 0
          [] value.k = "undefined" -> 0
          [] value.k = "bool" -> IF value.b THEN 1 ELSE 0
          [] value.k = "num" -> signedNumber(value.neg, value.digits)
          [] value.k = "str" ->
                IF digits # <<>> /\ \A n \in 1..Len(digits) : digits[n] \in 48..57
                THEN signedNumber(signed /\ t[1] = 45, digits)
                ELSE 0
          [] value.k = "obj" -> 0

\* String(x || "")
StringOrEmpty(value) ==
    IF ~Truthy(value) THEN <<>>
    ELSE CASE value.k = "bool" -> LiteralText("true")
           [] value.k = "num" -> IF value.neg THEN <<45>> \o value.digits
                                 ELSE value.digits
           [] value.k = "str" -> value.s
           [] value.k = "obj" -> LiteralText("object")

\* the names of the properties the parser reads
PropertyName(name) ==
    \* type
    CASE name = "type" ->
          <<116, 121, 112, 101>>
    \* allspace
      [] name = "allspace" ->
          <<97, 108, 108, 115, 112, 97, 99, 101>>
    \* freespace
      [] name = "freespace" ->
          <<102, 114, 101, 101, 115, 112, 97, 99, 101>>
    \* devname
      [] name = "devname" ->
          <<100, 101, 118, 110, 97, 109, 101>>
    \* size
      [] name = "size" ->
          <<115, 105, 122, 101>>
    \* brand
      [] name = "brand" ->
          <<98, 114, 97, 110, 100>>

\* the type test with the number form only
isDeviceStatusJson_m(jsonData) ==
    /\ Truthy(jsonData)
    /\ Get(jsonData, PropertyName("type"))
           = [k |-> "num", neg |-> FALSE, digits |-> Decimal(DEVICE_STATUS)]

\* isDeviceStatusPacket(): type === 13 || type === String(13)
isDeviceStatusJson(jsonData) ==
    /\ Truthy(jsonData)
    /\ \/ Get(jsonData, PropertyName("type"))
              = [k |-> "num", neg |-> FALSE, digits |-> Decimal(DEVICE_STATUS)]
       \/ Get(jsonData, PropertyName("type"))
              = [k |-> "str", s |-> Decimal(DEVICE_STATUS)]

parseDeviceStatus(jsonData) ==
    [type |-> DEVICE_STATUS,
     allspace |-> NumberOrZero(Get(jsonData, PropertyName("allspace"))),
     freespace |-> NumberOrZero(Get(jsonData, PropertyName("freespace"))),
     devname |-> StringOrEmpty(Get(jsonData, PropertyName("devname"))),
     size |-> StringOrEmpty(Get(jsonData, PropertyName("size"))),
     brand |-> NumberOrZero(Get(jsonData, PropertyName("brand")))]

\* ResponseParser.parse(data); deviceStatus is Null when the record has no
\* such property
parseBytes(data) ==
    IF Len(data) = 0
    THEN [rawText |-> <<>>, status |-> "none", jsonData |-> [k |-> "null"],
          isStatus |-> FALSE, deviceStatus |-> Null]
    ELSE LET rawText == RawText(data)
             jsonData == extractJsonText(rawText)
             isStatus == isDeviceStatusJson(jsonData)
         IN  [rawText |-> rawText, status |-> StatusOf(rawText),
              jsonData |-> jsonData, isStatus |-> isStatus,
              deviceStatus |-> IF isStatus /\ Truthy(jsonData)
                               THEN Some(parseDeviceStatus(jsonData))
                               ELSE Null]

\* ------------------------------------------------- calls of the parser
\* JSON texts a notification may hold: status objects, other objects, an
\* object cut short, a number
JsonText(name) ==
    \* {"type":13,"allspace":1024,"freespace":512,"devname":"Beam","size":"368,368","brand":2}
    CASE name = "full" ->
          <<123, 34, 116, 121, 112, 101, 34, 58, 49, 51, 44, 34, 97, 108,
            108, 115, 112, 97, 99, 101, 34, 58, 49, 48, 50, 52, 44, 34,
            102, 114, 101, 101, 115, 112, 97, 99, 101, 34, 58, 53, 49, 50,
            44, 34, 100, 101, 118, 110, 97, 109, 101, 34, 58, 34, 66, 101,
            97, 109, 34, 44, 34, 115, 105, 122, 101, 34, 58, 34, 51, 54,
            56, 44, 51, 54, 56, 34, 44, 34, 98, 114, 97, 110, 100, 34, 58,
            50, 125>>
    \* {"type":"13","allspace":null,"freespace":"77","devname":5,"brand":"abc"}
      [] name = "stringType" ->
          <<123, 34, 116, 121, 112, 101, 34, 58, 34, 49, 51, 34, 44, 34,
            97, 108, 108, 115, 112, 97, 99, 101, 34, 58, 110, 117, 108,
            108, 44, 34, 102, 114, 101, 101, 115, 112, 97, 99, 101, 34, 58,
            34, 55, 55, 34, 44, 34, 100, 101, 118, 110, 97, 109, 101, 34,
            58, 53, 44, 34, 98, 114, 97, 110, 100, 34, 58, 34, 97, 98, 99,
            34, 125>>
    \* { "brand":true, "devname":{"a":1}, "size":0, "freespace":-4, "type":13 }
      [] name = "odd" ->
          <<123, 32, 34, 98, 114, 97, 110, 100, 34, 58, 116, 114, 117, 101,
            44, 32, 34, 100, 101, 118, 110, 97, 109, 101, 34, 58, 123, 34,
            97, 34, 58, 49, 125, 44, 32, 34, 115, 105, 122, 101, 34, 58,
            48, 44, 32, 34, 102, 114, 101, 101, 115, 112, 97, 99, 101, 34,
            58, 45, 52, 44, 32, 34, 116, 121, 112, 101, 34, 58, 49, 51, 32,
            125>>
    \* {"type":6,"freespace":9}
      [] name = "imageInfo" ->
          <<123, 34, 116, 121, 112, 101, 34, 58, 54, 44, 34, 102, 114, 101,
            101, 115, 112, 97, 99, 101, 34, 58, 57, 125>>
    \* {"type":"13 ","freespace":9}
      [] name = "paddedType" ->
          <<123, 34, 116, 121, 112, 101, 34, 58, 34, 49, 51, 32, 34, 44,
            34, 102, 114, 101, 101, 115, 112, 97, 99, 101, 34, 58, 57, 125>>
    \* {"type":13
      [] name = "open" ->
          <<123, 34, 116, 121, 112, 101, 34, 58, 49, 51>>
    \* 13
      [] name = "number" ->
          <<49, 51>>

\* what a notification is put together from: NUL, a run of white space, a
\* raw 0xD1 byte, the bytes of U+0451 and of U+00D1, a letter, the three
\* status texts and the JSON texts
ParsePieces ==
    {<<0>>, <<32, 9, 13, 10>>, <<209>>, <<209, 145>>, <<195, 145>>, <<120>>}
    \cup {ResponseStatusText(s) : s \in {SUCCESS, FAIL, ERROR}}
    \cup {JsonText(n) : n \in {"full", "stringType", "odd", "imageInfo",
                               "paddedType", "open", "number"}}

\* the parser is static: one uploader stands for all; the data are up to
\* MaxPieces pieces, one after the other
ParserInit ==
    /\ Constructed
    /\ cfg.verbose
    /\ \E n \in 0..MaxPieces :
          \E pieces \in [1..n -> ParsePieces] :
              call = <<"parse", Flatten(pieces)>>
    /\ ret = Null

ParseCall ==
    /\ call[1] = "parse"
    /\ ret = Null
    /\ ret' = Some(parseBytes(call[2]))
    /\ UNCHANGED <<cfg, handlerVars, bleVars, taskVars, nRecv, errorAt, call>>

ParserNext == ParseCall

ParserSpec == ParserInit /\ [][ParserNext]_vars

\* the text holds the pattern at some place
HasText(text, pattern) ==
    \E a \in 1..Len(text) :
        \A n \in 1..Len(pattern) :
            a + n - 1 <= Len(text) /\ text[a + n - 1] = pattern[n]

\* C28: ResponseParser.parse gives the status by fixed precedence on the
\* cleaned text: SUCCESS if it holds GetPacketSuccess, otherwise FAIL if it
\* holds PacketFail, otherwise ERROR if it holds 1111111111, otherwise none;
\* so at most one of isSuccess, isFail and isError holds of the result.
C28_StatusPrecedence ==
    (call[1] = "parse" /\ ret # Null) =>
        LET response == ret[1]
            holds(status) == HasText(response.rawText, ResponseStatusText(status))
        IN  /\ holds(SUCCESS) => response.status = SUCCESS
            /\ (~holds(SUCCESS) /\ holds(FAIL)) => response.status = FAIL
            /\ (~holds(SUCCESS) /\ ~holds(FAIL) /\ holds(ERROR))
                   => response.status = ERROR
            /\ (~holds(SUCCESS) /\ ~holds(FAIL) /\ ~holds(ERROR))
                   => response.status = "none"
            /\ Cardinality({which \in {"isSuccess", "isFail", "isError"} :
                   CASE which = "isSuccess" -> isSuccess(response)
                     [] which = "isFail" -> isFail(response)
                     [] which = "isError" -> isError(response)}) <= 1

\* a notification with all three texts, the SUCCESS text last, parsed as
\* SUCCESS
C28_Witness ==
    /\ call[1] = "parse"
    /\ call[2] = ResponseStatusText(ERROR) \o ResponseStatusText(FAIL)
                 \o ResponseStatusText(SUCCESS)
    /\ ret # Null
    /\ isSuccess(ret[1])
    /\ ~isFail(ret[1])
    /\ ~isError(ret[1])

\* the UTF-8 bytes of a code unit below U+D800
Utf8Bytes(u) ==
    IF u < 128 THEN <<u>>
    ELSE IF u < 2048 THEN <<192 + (u \div 64), 128 + (u % 64)>>
    ELSE <<224 + (u \div 4096), 128 + ((u \div 64) % 64), 128 + (u % 64)>>

AsciiWhiteSpace == {9, 10, 11, 12, 13, 32}

\* C29: for every input byte sequence, also one that is not valid UTF-8 or
\* holds raw 0xD1 bytes, parse returns (it never raises) and the cleaned text
\* holds no 0x00 byte and no 0xD1 byte and neither starts nor ends with ASCII
\* white space.
C29_CleanedText ==
    (call[1] = "parse" /\ ret # Null) =>
        LET text == ret[1].rawText
            bytes(n) == Utf8Bytes(text[n])
        IN  /\ \A n \in 1..Len(text) : \A b \in 1..Len(bytes(n)) :
                   bytes(n)[b] # 0 /\ bytes(n)[b] # 209
            /\ text # <<>> =>
                   /\ bytes(1)[1] \notin AsciiWhiteSpace
                   /\ bytes(Len(text))[Len(bytes(Len(text)))]
                          \notin AsciiWhiteSpace

\* the values an extracted JSON value has under a name: none if it is no
\* object or has no such member
Members(jsonData, key) ==
    IF jsonData.k = "obj"
    THEN {jsonData.m[n][2] : n \in {a \in 1..Len(jsonData.m) :
                                       jsonData.m[a][1] = key}}
    ELSE {}

IsDigits(s) == Len(s) >= 1 /\ \A n \in 1..Len(s) : s[n] \in 48..57

\* n is the number a member is coerced to: a number is itself, a string of
\* digits its value, true and false are 1 and 0, and a missing member, null,
\* any other string and an object are 0
CoercedNumber(values, n) ==
    /\ values = {} => n = 0
    /\ \A v \in values :
          CASE v.k = "num" -> n = (IF v.neg THEN 0 - DigitsValue(v.digits)
                                   ELSE DigitsValue(v.digits))
            [] v.k = "str" -> n = (IF IsDigits(v.s) THEN DigitsValue(v.s) ELSE 0)
            [] v.k = "bool" -> n = (IF v.b THEN 1 ELSE 0)
            [] OTHER -> n = 0

\* s is the text a member is turned into: a string is itself, a missing
\* member the empty string, anything else some string
CoercedString(values, s) ==
    /\ values = {} => s = <<>>
    /\ \A v \in values : v.k = "str" => s = v.s
    /\ \A n \in 1..Len(s) : s[n] \in 0..65535

\* C30: a parsed response is a device-status record exactly when a JSON
\* object was extracted whose type member is the number 13 or the string
\* "13"; then the record has allspace, freespace and brand coerced to
\* numbers (0 when missing or not numeric) and devname and size as strings
\* (empty when missing); otherwise isStatus is false and no record is
\* attached.
C30_DeviceStatusRecord ==
    (call[1] = "parse" /\ ret # Null) =>
        LET response == ret[1]
            jsonData == response.jsonData
            typed == \E v \in Members(jsonData, PropertyName("type")) :
                        \/ v.k = "num" /\ ~v.neg /\ IsJsonNumber(v.digits, 13)
                        \/ v.k = "str" /\ v.s = <<49, 51>>
        IN  /\ response.isStatus <=> typed
            /\ response.deviceStatus # Null <=> typed
            /\ typed =>
                  LET status == response.deviceStatus[1]
                  IN  /\ status.type = 13
                      /\ CoercedNumber(Members(jsonData, PropertyName("allspace")),
                                       status.allspace)
                      /\ CoercedNumber(Members(jsonData, PropertyName("freespace")),
                                       status.freespace)
                      /\ CoercedNumber(Members(jsonData, PropertyName("brand")),
                                       status.brand)
                      /\ CoercedString(Members(jsonData, PropertyName("devname")),
                                       status.devname)
                      /\ CoercedString(Members(jsonData, PropertyName("size")),
                                       status.size)

\* the status object with type "13" between two raw 0xD1 bytes: a record
\* with the digits of freespace as a number, 0 for the null allspace and the
\* non-numeric brand, and the empty string for the missing size
C30_Witness ==
    /\ call[1] = "parse"
    /\ call[2] = <<209>> \o JsonText("stringType") \o <<209>>
    /\ ret # Null
    /\ ret[1].isStatus
    /\ ret[1].deviceStatus # Null
    /\ ret[1].deviceStatus[1].freespace = 77
    /\ ret[1].deviceStatus[1].allspace = 0
    /\ ret[1].deviceStatus[1].brand = 0
    /\ ret[1].deviceStatus[1].size = <<>>

\* ------------------------------------------------ the tasks and their flags
\* C31: the notify task is the only writer of errorFlag: a step in which
\* no notification is handled (a step of connect, sendImageInfo, sendData,
\* the finalize wait or disconnect) leaves errorFlag as it was, so the
\* flag, once set, stays set.
C31_NotifySoleWriter ==
    [][nRecv' = nRecv => errorFlag' = errorFlag]_vars

\* C32: the notification log is append-only and complete: every step in
\* which a notification is handled appends one entry for it to
\* allNotifications, whatever the verbose switch says, and every other step
\* leaves the log as it was; the log getNotifications() returns thus holds
\* as many entries as notifications were delivered.
C32_LogComplete ==
    [][IF nRecv' # nRecv
       THEN \E data \in Notifs :
               allNotifications' =
                  Append(allNotifications,
                         [data |-> data, parsed |-> parse(data)])
       ELSE allNotifications' = allNotifications]_vars

\* C33: when disconnect() has returned the engine holds no peripheral, no
\* write characteristic and no notify characteristic, and the notification
\* state of the closed connection is gone: no device status, the ready flag
\* and the error flag clear, and no status counted as received, so that the
\* status wait of a later connect() waits for a fresh one.
C33_NothingHeldAfterDisconnect ==
    [][(\E u, d, s \in BOOLEAN : Disconnect(u, d, s)) =>
          /\ ~peripheral' /\ ~writeCharacteristic' /\ ~notifyCharacteristic'
          /\ deviceStatus' = Null /\ ~deviceReady' /\ ~errorFlag'
          /\ ~deviceStatusReceived']_vars

\* C34: an upload that ends because errorFlag was raised, or because the
\* finalize wait ran out, has disconnected by the time upload() returns
\* false to its caller: no listener is left on the notify characteristic.
C34_DisconnectBeforeFailureReturn ==
    (pc = "done" /\ result = "false") => ~listening

\* C35: a waiter is registered only for as long as its wait lasts: a
\* status waiter only while connect() is in its status wait, a notification
\* waiter only while upload() is in its finalize wait.  A wait that has
\* ended, by a notification or by its timeout, leaves no waiter behind for
\* a later notification to signal.
C35_WaitersOneShot ==
    /\ statusResolve => pc = "awaitStatus"
    /\ notificationResolve => pc = "finalize"

\* ------------------------------------------------- the frame-table name field
\* the 12 bytes of the name field of table entry idx, and the frame's name
XV4NameField(idx) == SubSeq(ret[1], 32 + 16 * idx + 1, 32 + 16 * idx + 12)
XV4NameOf(idx) == call[2][idx + 1].name

SeqNext ==
    \/ Next
    \/ /\ pc \in {"new", "idle", "ready", "done"}
       /\ \E u, d, s \in BOOLEAN : Disconnect(u, d, s)

SeqSpec == Init /\ [][SeqNext]_vars

\* C37: an upload invoked when there is no connection - connect() was never
\* called, connect() returned false, or the connection has been closed -
\* fails with an error and writes no frame: when such an upload gets to
\* the point of announcing, it hands nothing to the transport and ends
\* with an UploadError or a ConnectionError.
C37_UploadRequiresReady ==
    [][(/\ pc = "settle" /\ pc' # "settle"
        /\ (connected # "true" \/ call = <<"disconnect">>))
       => /\ written' = <<>>
          /\ pc' = "done"
          /\ result' \in {"UploadError", "ConnectionError"}]_vars

\* the most data frames any upload of the model consists of
MostChunks ==
    LET sizes == {Len(buildImageData(jpeg, defaultSize, IMAGE)) : jpeg \in Jpegs}
                 \cup {Len(buildAnimationData(PadFrames(fs), INTERVAL_MS,
                                              animationsSize)) :
                          fs \in ExtractFrames}
        counts == {CeilDiv(sz, c) : sz \in sizes, c \in ChunkSizes}
    IN  CHOOSE m \in counts : \A n \in counts : n <= m

\* C38: the response to a device error is bounded: from any state in which
\* errorFlag is set and n data frames have been handed to the transport, at
\* most n + 1 are ever handed to it, whenever the notification was handled
\* relative to the streaming loop, and from any state in which errorFlag is
\* set the progress callback is not invoked again.
C38_BoundedResponse ==
    /\ \A n \in 0..MostChunks :
          [](errorFlag /\ Len(DataFrames) = n => [](Len(DataFrames) <= n + 1))
    /\ \A n \in 0..MostChunks :
          [](errorFlag /\ Len(progress) = n => [](Len(progress) = n))
    /\ [](Len(DataFrames) <= MostChunks)

\* the error sentinel was handled before the first data frame; one data
\* frame of several was written after it, no progress was reported and the
\* upload returned false
C38_Witness ==
    /\ pc = "done" /\ result = "false"
    /\ errorAt = {"other"}
    /\ Len(DataFrames) = 1
    /\ totalChunks > 1
    /\ progress = <<>>

\* ------------------------------------------- the handler on mixed notifications
\* notifications in which a sentinel comes with a JSON object or with
\* another sentinel, and one that is nothing but padding
MixedNotifs ==
    { <<Json(DEVICE_STATUS, 1), Lit(SUCCESS)>>,
      <<Lit(FAIL), Json(DEVICE_STATUS, 1)>>,
      <<Json(DEVICE_STATUS, 0), Lit(ERROR)>>,
      <<Json(IMAGE, 0), Lit(ERROR)>>,
      <<Lit(FAIL), Lit(ERROR)>>,
      <<Lit(ERROR), Lit(SUCCESS)>>,
      <<Ws, Nul>> }

\* the engine with a device that may also send the mixed notifications
MixNext ==
    \/ Next
    \/ \E data \in MixedNotifs : Notify(data)

MixSpec == Init /\ [][MixNext]_vars

\* the class of a notification, from its cleaned text alone
ClassOf(data) ==
    LET text == CleanText(data) IN
    IF text = <<>> THEN "empty"
    ELSE IF Includes(text, SUCCESS) THEN "SUCCESS"
    ELSE IF Includes(text, FAIL) THEN "FAIL"
    ELSE IF Includes(text, ERROR) THEN "ERROR"
    ELSE IF extractJson(text) # Null THEN "JSON"
    ELSE "raw"

\* C39: a handled notification is treated as exactly one of empty, SUCCESS,
\* FAIL, ERROR, JSON or raw text, a sentinel winning over a JSON object in
\* the same text.  errorFlag is raised only by a notification of class
\* ERROR, and every such notification raises it; only a notification of
\* class SUCCESS counts as a success; deviceStatus and deviceReady are
\* written only by a notification of class JSON, that is one whose cleaned
\* text holds none of the three sentinels, and lastNotification likewise.
C39_OneClassPerNotification ==
    [][\A data \in Notifs \cup MixedNotifs :
          Notify(data) =>
             LET class == ClassOf(data) IN
             /\ (~errorFlag /\ errorFlag') => class = "ERROR"
             /\ class = "ERROR" => errorFlag'
             /\ class \in {"SUCCESS", "FAIL"} => errorFlag' = errorFlag
             /\ (packetSuccessCount' # packetSuccessCount) <=> class = "SUCCESS"
             /\ (\/ deviceStatus' # deviceStatus
                 \/ deviceReady' # deviceReady
                 \/ lastNotification' # lastNotification)
                   => /\ class = "JSON"
                      /\ ~Includes(CleanText(data), SUCCESS)
                      /\ ~Includes(CleanText(data), FAIL)
                      /\ ~Includes(CleanText(data), ERROR)
             /\ class = "JSON" =>
                   /\ lastNotification' = extractJson(CleanText(data))
                   /\ isDeviceStatusPacket(lastNotification') =>
                         deviceStatus' = lastNotification' /\ deviceReady'
             /\ class \in {"empty", "raw"} =>
                   UNCHANGED <<errorFlag, packetSuccessCount, deviceStatus,
                               deviceReady, lastNotification>>]_vars

\* a device status that came with the error sentinel has been handled as an
\* error and nothing else: the flag is up and no status is stored
C39_Witness ==
    /\ errorFlag
    /\ nRecv = 1
    /\ deviceStatus = Null /\ ~deviceReady /\ lastNotification = Null
    /\ cfg.verbose
    /\ allNotifications[1].data = <<Json(DEVICE_STATUS, 0), Lit(ERROR)>>

\* ------------------------------------------------------- findDevice on its own
\* The scan by name, step by step.  `call` is <<"findDevice", closure>>: the
\* closure holds `found`, the timer, whether the "discover" listener is
\* attached, the state of the adapter's scan, the callbacks suspended at
\* `await noble.stopScanningAsync()` in the order they called it, the first
\* matching peripheral discovered, the peripheral assigned to
\* this.peripheral and the one connect() went on with.  `peripheral` says
\* whether this.peripheral is set; `ret` is what the promise of
\* findDevice() resolved with.
MaxAdverts == 3      \* advertisements delivered during one scan

Peripherals == {"p1", "p2", "other"}
\* name && name.toLowerCase().includes(deviceName.toLowerCase())
NameMatches(p) == p # "other"

\* findDevice() has been called on a new engine
ScanInit ==
    /\ Constructed
    /\ call = <<"findDevice",
                [found |-> FALSE, timer |-> "none", listener |-> FALSE,
                 scan |-> "off", awaiting |-> <<>>, first |-> Null,
                 stored |-> Null, seen |-> 0, target |-> Null]>>
    /\ ret = Null

ScanUnchanged ==
    UNCHANGED <<cfg, handlerVars, writeCharacteristic, notifyCharacteristic,
                listening, taskVars, nRecv, errorAt>>

\* findDevice(): initBluetooth() throws when the adapter is not powered
\* on; else the timer is armed, the listener attached and the scan started
findDevice(poweredOn) ==
    /\ call[2].timer = "none" /\ ret = Null
    /\ IF poweredOn
       THEN /\ isInitialized' = TRUE
            /\ call' = <<"findDevice",
                         [call[2] EXCEPT !.timer = "armed", !.listener = TRUE,
                                         !.scan = "on"]>>
            /\ UNCHANGED ret
       ELSE /\ ret' = Some(ThrownAt("new"))
            /\ UNCHANGED <<isInitialized, call>>
    /\ UNCHANGED peripheral
    /\ ScanUnchanged

\* noble.startScanningAsync() rejected: clearTimeout, resolve(null)
StartScanningRejected ==
    /\ call[2].scan = "on" /\ call[2].seen = 0 /\ call[2].timer = "armed"
    /\ call' = <<"findDevice",
                 [call[2] EXCEPT !.scan = "failed", !.timer = "cleared"]>>
    /\ ret' = Some("null")
    /\ UNCHANGED peripheral
    /\ UNCHANGED isInitialized
    /\ ScanUnchanged

\* the adapter emits "discover": onDiscover up to its await
onDiscover(p) ==
    /\ call[2].listener /\ call[2].scan = "on"
    /\ call[2].seen < MaxAdverts
    /\ call' = <<"findDevice",
                 IF NameMatches(p)
                 THEN [call[2] EXCEPT
                         !.seen = @ + 1,
                         !.found = TRUE,
                         !.timer = IF @ = "armed" THEN "cleared" ELSE @,
                         !.awaiting = Append(@, p),
                         !.first = IF @ = Null THEN Some(p) ELSE @]
                 ELSE [call[2] EXCEPT !.seen = @ + 1]>>
    /\ UNCHANGED <<peripheral, ret>>
    /\ UNCHANGED isInitialized
    /\ ScanUnchanged

\* the scan timer fires: the callback up to its await
ScanTimeout ==
    /\ call[2].timer = "armed" /\ call[2].scan = "on"
    /\ call' = <<"findDevice",
                 [call[2] EXCEPT
                    !.timer = "fired",
                    !.awaiting = IF call[2].found THEN @
                                 ELSE Append(@, "timeout")]>>
    /\ UNCHANGED <<peripheral, ret>>
    /\ UNCHANGED isInitialized
    /\ ScanUnchanged

\* stopScanningAsync() resolved for the callback that called it first: it
\* removes the listener and then, in onDiscover, stores its peripheral and
\* resolves with its address, or, in the timer callback, resolves with
\* null; only the first resolve settles the promise
StopScanningResolved ==
    LET who == Head(call[2].awaiting) IN
    /\ call[2].awaiting # <<>>
    /\ call' = <<"findDevice",
                 [call[2] EXCEPT
                    !.awaiting = Tail(@), !.listener = FALSE, !.scan = "off",
                    !.stored = IF who = "timeout" THEN @ ELSE Some(who)]>>
    /\ peripheral' = IF who = "timeout" THEN peripheral ELSE TRUE
    /\ ret' = IF ret # Null THEN ret
              ELSE IF who = "timeout" THEN Some("null") ELSE Some(who)
    /\ UNCHANGED isInitialized
    /\ ScanUnchanged

\* connect() after findDevice() returned an address: its own
\* stopScanningAsync(), called after those of the callbacks, has resolved
\* and it goes on with this.peripheral.connectAsync()
ConnectStored ==
    /\ ret # Null /\ ret[1] \in Peripherals
    /\ call[2].awaiting = <<>>
    /\ call[2].target = Null
    /\ call' = <<"findDevice", [call[2] EXCEPT !.target = call[2].stored]>>
    /\ UNCHANGED <<peripheral, ret>>
    /\ UNCHANGED isInitialized
    /\ ScanUnchanged

ScanNext ==
    \/ \E b \in BOOLEAN : findDevice(b)
    \/ StartScanningRejected
    \/ \E p \in Peripherals : onDiscover(p)
    \/ ScanTimeout
    \/ StopScanningResolved
    \/ ConnectStored

ScanSpec == ScanInit /\ [][ScanNext]_vars

\* C40: in a scan by name the peripheral the engine stores, and connects
\* to, is the first matching peripheral discovered and the one whose
\* address findDevice() returned, even when more matching advertisements
\* are delivered before the listener is removed.
C40_FirstMatchKept ==
    (ret # Null /\ ret[1] \in Peripherals) =>
        /\ ret = call[2].first
        /\ call[2].stored = call[2].first
        /\ call[2].target # Null => call[2].target = call[2].first

====
